---- MODULE Spec2Model ----
(***************************************************************************)
(* Model of the CFe-B card maker (src/main.py): the disk classifier        *)
(* (find_rminte_models_disk, find_target_cfeb_card), the manufacturer      *)
(* classifier (scan_models), the backend resolver (auto_detect_backend),   *)
(* the settings flow that saves their results, the multi-item copy         *)
(* operations and the make-card flow (run).                                *)
(*                                                                         *)
(* Python strings are sequences of one-character strings, so that          *)
(* substring tests, case folding, splitting and the LABEL regular          *)
(* expression are computed the way the code computes them.                 *)
(***************************************************************************)
EXTENDS Integers, Sequences, FiniteSets, TLC

VARIABLES inv, edits, fs, config, last, seen, job

vars == <<inv, edits, fs, config, last, seen, job>>

(***************************************************************************)
(* Bounds of the model.                                                    *)
(***************************************************************************)
\* number of environment changes (plug, format, mount, ...) in one behaviour
MaxEdits == 2

\* number of name pieces a folder name of the models folder is built from
MaxTokens == 3

\* number of backends in the manifest
MaxBackends == 2

\* number of patterns in one list of the manifest
MaxPatterns == 2

\* sub-folders of tree/dev in the copy operations
MaxSubFolders == 2

(***************************************************************************)
(* String helpers: the Python str operations the code uses.                *)
(***************************************************************************)
\* the empty string; also stands for None where the code only tests truth
Empty == << >>

\* Python: p in s
In(p, s) ==
    \E i \in 1..(Len(s) - Len(p) + 1) : \A j \in 1..Len(p) : s[i + j - 1] = p[j]

\* Python: s.startswith(p)
StartsWith(s, p) ==
    /\ Len(p) <= Len(s)
    /\ \A j \in 1..Len(p) : s[j] = p[j]

\* true when p occurs in s at index i (1-based)
OccursAt(p, s, i) ==
    /\ i >= 1
    /\ i + Len(p) - 1 <= Len(s)
    /\ \A j \in 1..Len(p) : s[i + j - 1] = p[j]

UpperLetters ==
    << "A","B","C","D","E","F","G","H","I","J","K","L","M",
       "N","O","P","Q","R","S","T","U","V","W","X","Y","Z" >>

LowerLetters ==
    << "a","b","c","d","e","f","g","h","i","j","k","l","m",
       "n","o","p","q","r","s","t","u","v","w","x","y","z" >>

LowerChar(c) ==
    IF \E k \in 1..Len(UpperLetters) : UpperLetters[k] = c
    THEN LowerLetters[CHOOSE k \in 1..Len(UpperLetters) : UpperLetters[k] = c]
    ELSE c

UpperChar(c) ==
    IF \E k \in 1..Len(LowerLetters) : LowerLetters[k] = c
    THEN UpperLetters[CHOOSE k \in 1..Len(LowerLetters) : LowerLetters[k] = c]
    ELSE c

\* Python: s.lower()
Lower(s) == [i \in 1..Len(s) |-> LowerChar(s[i])]

\* Python: s.upper()
Upper(s) == [i \in 1..Len(s) |-> UpperChar(s[i])]

\* Python: s.lstrip(chars), chars a set of characters
RECURSIVE LStrip(_, _)
LStrip(s, chars) ==
    IF s # Empty /\ Head(s) \in chars THEN LStrip(Tail(s), chars) ELSE s

\* Python: s.rstrip(chars)
RECURSIVE RStrip(_, _)
RStrip(s, chars) ==
    IF s # Empty /\ s[Len(s)] \in chars
    THEN RStrip(SubSeq(s, 1, Len(s) - 1), chars)
    ELSE s

\* Python: s.strip(chars)
Strip(s, chars) == RStrip(LStrip(s, chars), chars)

\* the whitespace characters that occur in the modelled texts
Whitespace == {" ", "\t", "\n"}

\* index of the first character of s that is in chars, 0 if none
FirstIn(s, chars) ==
    IF \E i \in 1..Len(s) : s[i] \in chars
    THEN CHOOSE i \in 1..Len(s) :
            /\ s[i] \in chars
            /\ \A j \in 1..(i - 1) : s[j] \notin chars
    ELSE 0

\* Python: s.split(c, 1) for a one-character separator c
SplitOnce(s, c) ==
    LET i == FirstIn(s, {c})
    IN  IF i = 0 THEN << s >>
        ELSE << SubSeq(s, 1, i - 1), SubSeq(s, i + 1, Len(s)) >>

\* Python: s.split(c) for a one-character separator c
RECURSIVE SplitOn(_, _)
SplitOn(s, c) ==
    LET i == FirstIn(s, {c})
    IN  IF i = 0 THEN << s >>
        ELSE << SubSeq(s, 1, i - 1) >> \o SplitOn(SubSeq(s, i + 1, Len(s)), c)

\* the non-empty fields of s separated by runs of characters of seps:
\* Python s.split() for seps = whitespace, and the non-empty results of
\* re.split on a run of separators
RECURSIVE Fields(_, _)
Fields(s, seps) ==
    LET t == LStrip(s, seps)
        i == FirstIn(t, seps)
    IN  IF t = Empty THEN << >>
        ELSE IF i = 0 THEN << t >>
        ELSE << SubSeq(t, 1, i - 1) >> \o Fields(SubSeq(t, i, Len(t)), seps)

\* decimal text of a partition number below 100
Digit(n) == << "0","1","2","3","4","5","6","7","8","9" >>[n + 1]

Decimal(n) == IF n < 10 THEN << Digit(n) >> ELSE << Digit(n \div 10), Digit(n % 10) >>


\* Python None, a value no modelled string equals
None == << "<None>" >>

\* truth value of an Optional[str]: None and '' are false
Truthy(x) == x # None /\ x # Empty

(***************************************************************************)
(* Texts of the program.                                                   *)
(***************************************************************************)
DevSd == << "/","d","e","v","/","s","d" >>

DevPrefix == << "/","d","e","v","/" >>

\* the master disk label, 'RMinte_Models'
RMinte_Models == << "R","M","i","n","t","e","_","M","o","d","e","l","s" >>

\* the second spelling the target scan tests, 'RMinte_models'
RMinte_models == << "R","M","i","n","t","e","_","m","o","d","e","l","s" >>

LabelEq == << "L","A","B","E","L","=" >>

\* role names of find_target_cfeb_card, in dictionary order
Roles == << "rootfs", "models", "app" >>

\* expected_keywords of find_target_cfeb_card
expected_keywords ==
    [ rootfs |-> << << "r","o","o","t","f","s" >> >>,
      models |-> << << "m","o","d","e","l","s" >> >>,
      app    |-> << << "a","p","p" >> >> ]

\* the drive letters range(ord('a'), ord('z') + 1) enumerates
DriveLetters == LowerLetters

(***************************************************************************)
(* The device inventory: what os.path.exists, blkid, lsblk and findmnt     *)
(* report.  A disk is a drive letter; a partition has a number, an         *)
(* optional label and an optional mount path (Empty when absent).          *)
(***************************************************************************)
\* the drive letters that can be present in the model
ModelledDisks == << "a", "b" >>

\* the partition numbers a disk of the model can carry, in kernel order
PartOrder == << 1, 2, 3, 10, 20, 30 >>

PartNumbers == { PartOrder[k] : k \in 1..Len(PartOrder) }

DiskSet == { ModelledDisks[k] : k \in 1..Len(ModelledDisks) }

NoPart == [exists |-> FALSE, label |-> Empty, mount |-> Empty]

Part(l, m) == [exists |-> TRUE, label |-> l, mount |-> m]

DiskPath(letter) == DevSd \o << letter >>

PartPath(letter, n) == DiskPath(letter) \o Decimal(n)

\* every <<letter, number>> pair of the model, in the order the kernel
\* lists partitions
AllSlots ==
    [k \in 1..(Len(ModelledDisks) * Len(PartOrder)) |->
        << ModelledDisks[((k - 1) \div Len(PartOrder)) + 1],
           PartOrder[((k - 1) % Len(PartOrder)) + 1] >>]

HasPart(i, letter, n) ==
    i.disks[letter].present /\ i.disks[letter].parts[n].exists

\* the partitions of the inventory, in the order the kernel lists them
Partitions(i) == SelectSeq(AllSlots, LAMBDA lp : HasPart(i, lp[1], lp[2]))

\* os.path.exists(path) for a device node
PathExists(i, path) ==
    \E letter \in DiskSet :
        /\ i.disks[letter].present
        /\ \/ path = DiskPath(letter)
           \/ \E n \in PartNumbers :
                 i.disks[letter].parts[n].exists /\ path = PartPath(letter, n)

\* one line of blkid output: /dev/sdb1: LABEL="rootfs" TYPE="ext4"
BlkidLine(i, letter, n) ==
    LET p == i.disks[letter].parts[n]
    IN  PartPath(letter, n) \o << ":", " " >>
        \o (IF p.label # Empty
            THEN LabelEq \o << "\"" >> \o p.label \o << "\"", " " >>
            ELSE << >>)
        \o << "T","Y","P","E","=","\"","e","x","t","4","\"" >>

\* result.stdout.strip().split('\n') of blkid
BlkidLines(i) ==
    LET ps == Partitions(i)
    IN  [k \in 1..Len(ps) |-> BlkidLine(i, ps[k][1], ps[k][2])]

\* subprocess.run(['blkid'], check=True) succeeds: blkid found at least one
\* device (it exits with status 2, hence CalledProcessError, when it finds
\* none).  The commands themselves are taken to be installed.
BlkidRuns(i) ==
    \E letter \in DiskSet, n \in PartNumbers : HasPart(i, letter, n)

\* the partitions listed under one disk
DiskParts(i, letter) ==
    SelectSeq(Partitions(i), LAMBDA lp : lp[1] = letter)

\* one partition line of lsblk -o NAME,LABEL,MOUNTPOINT; the name carries the
\* tree drawing characters, written here by their code points
LsblkPartLine(i, letter, n, isLast) ==
    LET p == i.disks[letter].parts[n]
    IN  << (IF isLast THEN "U+2514" ELSE "U+251C"), "U+2500", "s", "d", letter >> \o Decimal(n)
        \o << " " >> \o p.label \o << " " >> \o p.mount

RECURSIVE LsblkFrom(_, _)
LsblkFrom(i, d) ==
    IF d > Len(ModelledDisks) THEN << >>
    ELSE LET letter == ModelledDisks[d]
             ps == DiskParts(i, letter)
         IN  (IF i.disks[letter].present
              THEN << << "s", "d", letter >> >>
                   \o [k \in 1..Len(ps) |->
                         LsblkPartLine(i, letter, ps[k][2], k = Len(ps))]
              ELSE << >>)
             \o LsblkFrom(i, d + 1)

\* result.stdout.strip().split('\n') of lsblk -o NAME,LABEL,MOUNTPOINT
LsblkLines(i) ==
    << << "N","A","M","E"," ","L","A","B","E","L"," ",
          "M","O","U","N","T","P","O","I","N","T" >> >>
    \o LsblkFrom(i, 1)

\* get_mount_point(device): findmnt, then /proc/mounts
get_mount_point(i, device) ==
    LET hits == { lp \in DiskSet \X PartNumbers :
                    /\ HasPart(i, lp[1], lp[2])
                    /\ i.disks[lp[1]].parts[lp[2]].mount # Empty
                    /\ PartPath(lp[1], lp[2]) = device }
    IN  IF hits = {} THEN None
        ELSE LET lp == CHOOSE lp \in hits : TRUE
             IN  i.disks[lp[1]].parts[lp[2]].mount


(***************************************************************************)
(* find_rminte_models_disk                                                 *)
(***************************************************************************)
\* the test of line 156 on one blkid line
HasMasterLabel(line) ==
    \/ In(LabelEq \o << "\"" >> \o RMinte_Models \o << "\"" >>, line)
    \/ In(LabelEq \o << "'" >> \o RMinte_Models \o << "'" >>, line)

\* index of the last blkid line that passes the test, 0 if none
BlkidMatchLast(lines) ==
    IF \E k \in 1..Len(lines) : HasMasterLabel(lines[k])
    THEN CHOOSE k \in 1..Len(lines) :
            /\ HasMasterLabel(lines[k])
            /\ \A j \in (k + 1)..Len(lines) : ~HasMasterLabel(lines[j])
    ELSE 0

\* index of the first blkid line that passes the test, 0 if none
BlkidMatch(lines) ==
    IF \E k \in 1..Len(lines) : HasMasterLabel(lines[k])
    THEN CHOOSE k \in 1..Len(lines) :
            /\ HasMasterLabel(lines[k])
            /\ \A j \in 1..(k - 1) : ~HasMasterLabel(lines[j])
    ELSE 0

\* device = line.split(':')[0].strip()
BlkidDevice(line) == Strip(SplitOn(line, ":")[1], Whitespace)

\* a blkid pass that forgets the mount point lookup
BlkidPassDevice(i, line) == BlkidDevice(line)

\* the blkid pass: mount point of the device, else the device path
BlkidPass(i, line) ==
    LET device == BlkidDevice(line)
        mount_point == get_mount_point(i, device)
    IN  IF Truthy(mount_point) THEN mount_point ELSE device

\* the lsblk pass over lines[k..]
RECURSIVE LsblkPass(_, _, _)
LsblkPass(i, lines, k) ==
    IF k > Len(lines) THEN None
    ELSE LET line == lines[k]
             parts == Fields(line, Whitespace)
         IN  IF In(RMinte_Models, line) /\ Len(parts) >= 3
             THEN IF parts[3] # Empty /\ parts[3] # << "/" >>
                  THEN parts[3]
                  ELSE LET device_name == parts[1]
                           device == IF StartsWith(device_name, DevPrefix)
                                     THEN device_name
                                     ELSE DevPrefix \o device_name
                           mount_point == get_mount_point(i, device)
                       IN  IF Truthy(mount_point) THEN mount_point ELSE device
             ELSE LsblkPass(i, lines, k + 1)

find_rminte_models_disk(i) ==
    IF ~BlkidRuns(i) THEN None
    ELSE LET lines == BlkidLines(i)
             k == BlkidMatch(lines)
         IN  IF k # 0 THEN BlkidPass(i, lines[k])
             ELSE LsblkPass(i, LsblkLines(i), 2)

(***************************************************************************)
(* find_target_cfeb_card                                                   *)
(***************************************************************************)
\* the disks /dev/sda .. /dev/sdz that exist, in that order
disk_devices(i) ==
    LET all == [k \in 1..Len(DriveLetters) |-> DiskPath(DriveLetters[k])]
    IN  SelectSeq(all, LAMBDA d : PathExists(i, d))

\* the partitions dictionary of one disk
partitions(disk_device) ==
    [ rootfs |-> disk_device \o << "1" >>,
      models |-> disk_device \o << "2" >>,
      app    |-> disk_device \o << "3" >> ]

\* re.search(LABEL=q([^q]+)q, line).group(1) for the quote character q,
\* None when the expression does not match
ReSearchLabel(line, q) ==
    LET key == LabelEq \o << q >>
        n == Len(key)
        starts == { s \in 1..Len(line) :
                      /\ OccursAt(key, line, s)
                      /\ s + n <= Len(line)
                      /\ line[s + n] # q
                      /\ \E e \in (s + n + 1)..Len(line) : line[e] = q }
    IN  IF starts = {} THEN None
        ELSE LET s == CHOOSE s \in starts : \A t \in starts : s <= t
                 e == CHOOSE e \in (s + n + 1)..Len(line) :
                        /\ line[e] = q
                        /\ \A f \in (s + n + 1)..(e - 1) : line[f] # q
             IN  SubSeq(line, s + n, e - 1)

\* the label lines 383-389 read from one blkid line, None if they read none
LineLabel(line) ==
    LET label_match == ReSearchLabel(line, "\"")
    IN  IF label_match # None THEN label_match ELSE ReSearchLabel(line, "'")

\* partition_labels.get(name, '') after the loop of lines 380-389 over
\* lines[k..], cur being the entry so far
RECURSIVE LabelScan(_, _, _, _)
LabelScan(lines, k, path, cur) ==
    IF k > Len(lines) THEN cur
    ELSE LET found == IF In(path, lines[k]) THEN LineLabel(lines[k]) ELSE None
         IN  LabelScan(lines, k + 1, path, IF found # None THEN found ELSE cur)

partition_labels(lines, disk_device) ==
    [name \in DOMAIN partitions(disk_device) |->
        LabelScan(lines, 1, partitions(disk_device)[name], Empty)]

\* partition_mounts.get(name, '') after the loop of lines 392-395
partition_mounts(i, disk_device) ==
    [name \in DOMAIN partitions(disk_device) |->
        LET mount_point == get_mount_point(i, partitions(disk_device)[name])
        IN  IF Truthy(mount_point) THEN mount_point ELSE Empty]

\* an existence check that never reports a missing partition
missing_partitions_none(i, disk_device) == {}

\* lines 366-373: some partition of the three does not exist
missing_partitions(i, disk_device) ==
    { name \in DOMAIN partitions(disk_device) :
        ~PathExists(i, partitions(disk_device)[name]) }

\* lines 398-402: the disk is taken for the model master disk
IsMasterDisk(i, lines, disk_device) ==
    LET models_label == partition_labels(lines, disk_device).models
        models_mount == partition_mounts(i, disk_device).models
    IN  \/ In(RMinte_Models, models_label)
        \/ In(RMinte_models, models_label)
        \/ In(RMinte_Models, models_mount)

\* lines 413-424: every role matches by label or by mount path
all_match(i, lines, disk_device) ==
    \A r \in 1..Len(Roles) :
        LET name == Roles[r]
            keywords == expected_keywords[name]
            actual_label == Lower(partition_labels(lines, disk_device)[name])
            actual_mount == Lower(partition_mounts(i, disk_device)[name])
            label_match == \E w \in 1..Len(keywords) : In(keywords[w], actual_label)
            mount_match == \E w \in 1..Len(keywords) : In(keywords[w], actual_mount)
        IN  label_match \/ mount_match

\* the body of the loop of lines 358-428 returns this disk
DiskAccepted(i, lines, disk_device) ==
    /\ missing_partitions(i, disk_device) = {}
    /\ ~IsMasterDisk(i, lines, disk_device)
    /\ all_match(i, lines, disk_device)

\* a loop that keeps scanning and returns the last accepted disk
RECURSIVE TargetLoopLast(_, _, _, _)
TargetLoopLast(i, lines, devices, k) ==
    IF k > Len(devices) THEN None
    ELSE LET later == TargetLoopLast(i, lines, devices, k + 1)
         IN  IF later # None THEN later
             ELSE IF DiskAccepted(i, lines, devices[k]) THEN devices[k]
             ELSE None

\* the loop of lines 358-430 over devices[k..]
RECURSIVE TargetLoop(_, _, _, _)
TargetLoop(i, lines, devices, k) ==
    IF k > Len(devices) THEN None
    ELSE IF DiskAccepted(i, lines, devices[k]) THEN devices[k]
    ELSE TargetLoop(i, lines, devices, k + 1)

find_target_cfeb_card(i) ==
    IF disk_devices(i) = << >> THEN None
    ELSE IF ~BlkidRuns(i) THEN None
    ELSE TargetLoop(i, BlkidLines(i), disk_devices(i), 1)


(***************************************************************************)
(* scan_models: the manufacturer classifier.                               *)
(***************************************************************************)
GLM == << "G","L","M" >>

ZhipuAI == << "Z","h","i","p","u","A","I" >>

Others == << "O","t","h","e","r","s" >>

Qwen == << "Q","w","e","n" >>

\* known_manufacturers of scan_models, in list order
known_manufacturers ==
    << Qwen,
       << "G","P","T" >>,
       << "L","l","a","m","a" >>,
       << "D","e","e","p","S","e","e","k" >>,
       << "G","e","m","m","a" >>,
       << "C","h","a","t","G","L","M" >>,
       << "B","a","i","c","h","u","a","n" >>,
       << "I","n","t","e","r","n","L","M" >> >>

\* os.path.join(a, b) for a relative b
PathJoin(a, b) == a \o << "/" >> \o b

\* the directory names find_models_download_path tries, in order
possible_names ==
    << << "M","o","d","e","l","s","_","d","o","w","n","l","o","a","d" >>,
       << "M","o","d","e","l","s","_","D","o","w","n","l","o","a","d" >> >>

\* find_models_download_path(base_path): f.download_dirs are the names that
\* exist under the master disk
find_models_download_path(f, base_path) ==
    IF \E k \in 1..Len(possible_names) : possible_names[k] \in f.download_dirs
    THEN PathJoin(base_path,
                  possible_names[CHOOSE k \in 1..Len(possible_names) :
                      /\ possible_names[k] \in f.download_dirs
                      /\ \A j \in 1..(k - 1) : possible_names[j] \notin f.download_dirs])
    ELSE None

\* lines 108-116: index of the first known manufacturer the name starts
\* with, 0 if there is none
KnownPrefix(item) ==
    IF \E k \in 1..Len(known_manufacturers) : StartsWith(item, known_manufacturers[k])
    THEN CHOOSE k \in 1..Len(known_manufacturers) :
            /\ StartsWith(item, known_manufacturers[k])
            /\ \A j \in 1..(k - 1) : ~StartsWith(item, known_manufacturers[j])
    ELSE 0

\* a prefix step that keeps the separators after the manufacturer name
ByPrefixKeepSeparators(item) ==
    LET mfg == known_manufacturers[KnownPrefix(item)]
        remaining == SubSeq(item, Len(mfg) + 1, Len(item))
    IN  [manufacturer |-> mfg,
         model_name |-> IF remaining # Empty THEN remaining ELSE item]

\* lines 109-116: manufacturer and model name by the known prefix
ByPrefix(item) ==
    LET mfg == known_manufacturers[KnownPrefix(item)]
        remaining == LStrip(SubSeq(item, Len(mfg) + 1, Len(item)), {"_", "-"})
    IN  [manufacturer |-> mfg,
         model_name |-> IF remaining # Empty THEN remaining ELSE item]

\* a separator step that looks for the hyphen before the underscore
BySeparatorHyphenFirst(item) ==
    LET parts == IF In(<< "-" >>, item) THEN SplitOnce(item, "-")
                 ELSE IF In(<< "_" >>, item) THEN SplitOnce(item, "_")
                 ELSE << >>
    IN  IF parts # << >> /\ Len(parts) >= 2
        THEN [manufacturer |-> parts[1], model_name |-> parts[2]]
        ELSE [manufacturer |-> Others, model_name |-> item]

\* a separator step without the Others bucket: a name without separator
\* is its own manufacturer
BySeparatorNoDefault(item) ==
    LET parts == IF In(<< "_" >>, item) THEN SplitOnce(item, "_")
                 ELSE IF In(<< "-" >>, item) THEN SplitOnce(item, "-")
                 ELSE << >>
    IN  IF parts # << >> /\ Len(parts) >= 2
        THEN [manufacturer |-> parts[1], model_name |-> parts[2]]
        ELSE [manufacturer |-> item, model_name |-> item]

\* lines 119-133: manufacturer and model name by the first separator
BySeparator(item) ==
    LET parts == IF In(<< "_" >>, item) THEN SplitOnce(item, "_")
                 ELSE IF In(<< "-" >>, item) THEN SplitOnce(item, "-")
                 ELSE << >>
    IN  IF parts # << >> /\ Len(parts) >= 2
        THEN [manufacturer |-> parts[1], model_name |-> parts[2]]
        ELSE [manufacturer |-> Others, model_name |-> item]

\* a classifier that tries the known prefixes before the GLM keyword
ClassifyPrefixFirst(item) ==
    IF KnownPrefix(item) # 0 THEN ByPrefix(item)
    ELSE IF In(GLM, Upper(item)) THEN [manufacturer |-> ZhipuAI, model_name |-> item]
    ELSE BySeparator(item)

\* lines 100-133: manufacturer and model name of one folder name
Classify(item) ==
    IF In(GLM, Upper(item)) THEN [manufacturer |-> ZhipuAI, model_name |-> item]
    ELSE IF KnownPrefix(item) # 0 THEN ByPrefix(item)
    ELSE BySeparator(item)

\* an entry with manufacturer and model name swapped
ModelEntrySwapped(models_path, item) ==
    [manufacturer |-> Classify(item).model_name,
     model_name   |-> Classify(item).manufacturer,
     full_name    |-> item,
     path         |-> PathJoin(models_path, item)]

\* lines 135-140: the entry appended for one folder
ModelEntry(models_path, item) ==
    [manufacturer |-> Classify(item).manufacturer,
     model_name   |-> Classify(item).model_name,
     full_name    |-> item,
     path         |-> PathJoin(models_path, item)]

\* scan_models(base_path): f.listing is os.listdir of the models folder,
\* each item with its name and whether it is a directory
scan_models(f, base_path) ==
    LET models_path == find_models_download_path(f, base_path)
        dirs == SelectSeq(f.listing, LAMBDA it : it.isdir)
    IN  IF models_path = None THEN << >>
        ELSE [k \in 1..Len(dirs) |-> ModelEntry(models_path, dirs[k].name)]

(***************************************************************************)
(* auto_detect_backend: the backend resolver.                              *)
(***************************************************************************)
FlashAttention == << "F","l","a","s","h","A","t","t","e","n","t","i","o","n" >>

FlashInfer == << "F","l","a","s","h","I","n","f","e","r" >>

\* the characters strip('"\'') removes
Quotes == {"\"", "'"}

\* the separators of re.split(r'[, U+FF0C \s]+', ...): comma, full-width
\* comma (written by its code point) and whitespace
ListSeparators == {",", "U+FF0C"} \cup Whitespace

\* line 791 and line 799: the three-way match
Matches(model_name, m) ==
    \/ model_name = m
    \/ In(model_name, m)
    \/ In(m, model_name)

\* line 790: m_clean = str(m).strip('"\'')
CleanPattern(m) == Strip(m, Quotes)

\* a tokenizer that splits at ASCII commas only
model_list_commas(models) ==
    LET raw == Fields(Strip(models, Whitespace), {","})
    IN  [k \in 1..Len(raw) |-> Strip(Strip(raw[k], Whitespace), Quotes)]

\* lines 796-797: the tokens of a string value
model_list(models) ==
    LET raw == Fields(Strip(models, Whitespace), ListSeparators)
    IN  [k \in 1..Len(raw) |-> Strip(Strip(raw[k], Whitespace), Quotes)]

\* lines 786-801: the value of one backend has a matching pattern
ValueMatches(model_name, models) ==
    IF models.type = "list"
    THEN \E k \in 1..Len(models.list) :
            Matches(model_name, CleanPattern(models.list[k]))
    ELSE IF models.type = "str"
    THEN \E k \in 1..Len(model_list(models.str)) :
            Matches(model_name, model_list(models.str)[k])
    ELSE FALSE

\* a loop that returns the last matching backend of items[k..]
RECURSIVE BackendLoopLast(_, _, _)
BackendLoopLast(model_name, items, k) ==
    IF k > Len(items) THEN FlashAttention
    ELSE IF \E j \in (k + 1)..Len(items) : ValueMatches(model_name, items[j].models)
    THEN BackendLoopLast(model_name, items, k + 1)
    ELSE IF ValueMatches(model_name, items[k].models) THEN items[k].backend
    ELSE FlashAttention

\* lines 785-804: the loop over backend_list.items() from item k on, and
\* the default after it
RECURSIVE BackendLoop(_, _, _)
BackendLoop(model_name, items, k) ==
    IF k > Len(items) THEN FlashAttention
    ELSE IF ValueMatches(model_name, items[k].models) THEN items[k].backend
    ELSE BackendLoop(model_name, items, k + 1)

\* a resolver that gives up when the manifest is missing
auto_detect_backend_strict(model_name, cfg, f) ==
    IF ~Truthy(cfg.disk_path) THEN None
    ELSE IF f.backend_list.kind # "mapping" THEN None
    ELSE BackendLoop(model_name, f.backend_list.items, 1)

\* a resolver that answers from its previous answer when it has one
auto_detect_backend_cached(model_name, cfg, f) ==
    IF last.op = "auto_detect_backend" THEN last.ret
    ELSE IF ~Truthy(cfg.disk_path) THEN None
    ELSE IF f.backend_list.kind # "mapping" THEN FlashAttention
    ELSE BackendLoop(model_name, f.backend_list.items, 1)

\* auto_detect_backend(model_name, config); f.backend_list is the file
\* 98autoshell/backend_list.yaml of the master disk: missing, unreadable
\* (open or yaml.safe_load raises), or what yaml.safe_load returns
auto_detect_backend(model_name, cfg, f) ==
    IF ~Truthy(cfg.disk_path) THEN None
    ELSE IF f.backend_list.kind = "missing" THEN FlashAttention
    ELSE IF f.backend_list.kind = "unreadable" THEN FlashAttention
    ELSE IF f.backend_list.kind = "empty" THEN FlashAttention
    ELSE IF f.backend_list.kind = "mapping" /\ f.backend_list.items = << >>
    THEN FlashAttention
    ELSE IF f.backend_list.kind # "mapping" THEN FlashAttention
    ELSE BackendLoop(model_name, f.backend_list.items, 1)

(***************************************************************************)
(* The environment: disks are plugged and unplugged, partitions are        *)
(* created, formatted, labelled, mounted and removed between two           *)
(* operations of the tool.                                                 *)
(***************************************************************************)
Mnt(name) == << "/","m","n","t","/" >> \o name

MediaMaster == << "/","m","e","d","i","a","/" >> \o RMinte_Models

OtherLabel == << "d","a","t","a" >>

\* a label that merely contains the master label
LongLabel == RMinte_Models \o << "2" >>

\* the role a partition number stands for, also for the numbers that only
\* share their first digit with it
RoleOf(n) == Roles[IF n < 10 THEN n ELSE n \div 10]

Keyword(n) == expected_keywords[RoleOf(n)][1]

AbsentDisk == [present |-> FALSE, parts |-> [n \in PartNumbers |-> NoPart]]

BlankDisk == [present |-> TRUE, parts |-> [n \in PartNumbers |-> NoPart]]

\* a master disk: one mounted partition with the master label
MasterDisk ==
    [present |-> TRUE,
     parts |-> [n \in PartNumbers |->
                  IF n = 1 THEN Part(RMinte_Models, MediaMaster) ELSE NoPart]]

\* a card as the appliance expects it: three labelled partitions
CardDisk ==
    [present |-> TRUE,
     parts |-> [n \in PartNumbers |->
                  IF n <= 3 THEN Part(Keyword(n), Empty) ELSE NoPart]]

\* what a partition with number n can be turned into
PartChoices(n) ==
    IF n <= 3
    THEN { NoPart,
           Part(Empty, Mnt(Upper(Keyword(n)))),
           Part(OtherLabel, Empty),
           Part(RMinte_Models, Mnt(Keyword(n))),
           Part(RMinte_Models, Empty),
           Part(OtherLabel, MediaMaster),
           Part(LongLabel, << "/" >>) }
    ELSE { NoPart,
           Part(Keyword(n), Empty) }

Idle == [op |-> "idle", ret |-> None]

NoConfig ==
    [disk_path |-> None, models |-> << >>,
     cfeb_card |-> None, target_partitions |-> None,
     target_cfeb_card |-> None]

NoManifest == [kind |-> "missing", items |-> << >>]

\* no earlier call is remembered
NoCall == [call |-> Idle, backend_list |-> NoManifest, config |-> NoConfig]

\* run has not been started
NoJob ==
    [pc |-> "menu", config |-> NoConfig, backend_choice |-> "0",
     selected_model |-> None, backend_type |-> None, trace |-> << >>]

\* a master disk without models folder and without manifest
NoFiles == [download_dirs |-> {}, listing |-> << >>, backend_list |-> NoManifest]

BaseInventory ==
    [disks |-> [letter \in DiskSet |->
                  IF letter = "a" THEN MasterDisk ELSE CardDisk]]

InitDisk ==
    /\ inv = BaseInventory
    /\ edits = 0
    /\ fs = NoFiles
    /\ config = NoConfig
    /\ last = Idle
    /\ seen = NoCall
    /\ job = NoJob

\* the inventory changes; the result of the last operation is consumed
Edit(newinv) ==
    /\ edits < MaxEdits
    /\ newinv # inv
    /\ inv' = newinv
    /\ edits' = edits + 1
    /\ last' = Idle
    /\ UNCHANGED <<fs, config, seen, job>>

PlugDisk ==
    \E letter \in DiskSet, d \in {BlankDisk, MasterDisk, CardDisk} :
        /\ ~inv.disks[letter].present
        /\ Edit([inv EXCEPT !.disks[letter] = d])

UnplugDisk ==
    \E letter \in DiskSet :
        /\ inv.disks[letter].present
        /\ Edit([inv EXCEPT !.disks[letter] = AbsentDisk])

SetPartition ==
    \E letter \in DiskSet, n \in PartNumbers :
        /\ edits < MaxEdits
        /\ inv.disks[letter].present
        /\ \E c \in PartChoices(n) :
              Edit([inv EXCEPT !.disks[letter].parts[n] = c])

(***************************************************************************)
(* The operations of the disk classifier, run on the current inventory.    *)
(***************************************************************************)
\* a target finder that also stores what it found
FindTargetCfebCardSaving ==
    /\ last' = [op |-> "find_target_cfeb_card", ret |-> find_target_cfeb_card(inv)]
    /\ config' = [config EXCEPT !.cfeb_card = find_target_cfeb_card(inv)]
    /\ UNCHANGED <<inv, edits, fs, seen, job>>

FindTargetCfebCard ==
    /\ last' = [op |-> "find_target_cfeb_card", ret |-> find_target_cfeb_card(inv)]
    /\ UNCHANGED <<inv, edits, fs, config, seen, job>>

FindRminteModelsDisk ==
    /\ last' = [op |-> "find_rminte_models_disk", ret |-> find_rminte_models_disk(inv)]
    /\ UNCHANGED <<inv, edits, fs, config, seen, job>>

NextDisk ==
    \/ PlugDisk
    \/ UnplugDisk
    \/ SetPartition
    \/ FindTargetCfebCard
    \/ FindRminteModelsDisk

SpecDisk == InitDisk /\ [][NextDisk]_vars


(***************************************************************************)
(* The manufacturer classifier on the folders of a master disk.            *)
(***************************************************************************)
\* the pieces folder names are built from
Tokens ==
    { Qwen, << "C","h","a","t" >>, << "G","L" >>, << "M" >>, << "g","l","m" >>,
      << "_" >>, << "-" >>, << "x" >> }

\* the names built from exactly n pieces
RECURSIVE NamesOf(_)
NamesOf(n) ==
    IF n = 0 THEN { Empty }
    ELSE { t \o rest : t \in Tokens, rest \in NamesOf(n - 1) }

FolderNames == UNION { NamesOf(n) : n \in 1..MaxTokens }

Item(n, d) == [name |-> n, isdir |-> d]

\* what os.listdir can find in the models folder: nothing, one item (a
\* folder or a file), or two folders
Listings ==
    { << >> }
    \cup { << Item(n, d) >> : n \in FolderNames, d \in BOOLEAN }
    \cup { << Item(a, TRUE), Item(b, TRUE) >> : a \in Tokens, b \in Tokens }

InitScan ==
    /\ inv = BaseInventory
    /\ edits = 0
    /\ fs \in { [download_dirs |-> dd, listing |-> l, backend_list |-> NoManifest] :
                  dd \in SUBSET { possible_names[k] : k \in 1..Len(possible_names) },
                  l \in Listings }
    /\ config = NoConfig
    /\ last = Idle
    /\ seen = NoCall
    /\ job = NoJob

\* scan_models on the mounted master disk
ScanModels ==
    /\ last' = [op |-> "scan_models", ret |-> scan_models(fs, MediaMaster)]
    /\ UNCHANGED <<inv, edits, fs, config, seen, job>>

NextScan == ScanModels

SpecScan == InitScan /\ [][NextScan]_vars

(***************************************************************************)
(* The backend resolver on the manifest of a master disk.                  *)
(***************************************************************************)
OtherBackend == << "T","r","i","t","o","n" >>

BackendNames == { FlashAttention, FlashInfer, OtherBackend }

\* the patterns of the manifest lists: contained in a model name, containing
\* a model name, and a quoted pattern
Patterns ==
    { << "G","L","M","-","4" >>,
      << "Q","w","e","n","2","-","7","B" >>,
      << "\"","7","B","\"" >> }

\* the string values of the manifest
PatternStrings ==
    { << "G","L","M","-","4","-","9","B",","," ","L","l","a","m","a","3" >>,
      << " ","'","7","B","'","U+FF0C","\t","L","l","a","m","a","3"," " >> }

\* the lists of at most n distinct patterns
RECURSIVE PatternLists(_)
PatternLists(n) ==
    IF n = 0 THEN { << >> }
    ELSE PatternLists(n - 1)
         \cup { Append(l, q) : l \in { m \in PatternLists(n - 1) : Len(m) = n - 1 },
                               q \in Patterns }

NoRepeat(l) == \A a, b \in 1..Len(l) : l[a] = l[b] => a = b

\* the values a backend key can have: a list, a string, anything else
ManifestValues ==
    { [type |-> "list", list |-> l, str |-> Empty] :
        l \in { m \in PatternLists(MaxPatterns) : NoRepeat(m) } }
    \cup { [type |-> "str", list |-> << >>, str |-> t] : t \in PatternStrings }
    \cup { [type |-> "other", list |-> << >>, str |-> Empty] }

\* the mappings of at most n backends with distinct keys
RECURSIVE Mappings(_)
Mappings(n) ==
    IF n = 0 THEN { << >> }
    ELSE Mappings(n - 1)
         \cup { Append(m, [backend |-> b, models |-> v]) :
                  m \in { x \in Mappings(n - 1) : Len(x) = n - 1 },
                  b \in BackendNames, v \in ManifestValues }

DistinctKeys(m) == \A a, b \in 1..Len(m) : m[a].backend = m[b].backend => a = b

\* what backend_list.yaml can be
Manifests ==
    { [kind |-> k, items |-> << >>] :
        k \in {"missing", "unreadable", "empty", "scalar", "sequence"} }
    \cup { [kind |-> "mapping", items |-> m] :
             m \in { x \in Mappings(MaxBackends) : DistinctKeys(x) } }

\* the folders of the master disk the configuration was made from
ConfiguredFolders ==
    << Item(<< "G","L","M","-","4","-","9","B" >>, TRUE),
       Item(<< "Q","w","e","n","2","-","7","B" >>, TRUE) >>

ConfiguredFiles ==
    [download_dirs |-> { possible_names[1] },
     listing |-> ConfiguredFolders,
     backend_list |-> NoManifest]

\* the configuration confirm_model_disk saved for that master disk
SavedConfig ==
    [NoConfig EXCEPT !.disk_path = MediaMaster,
                     !.models = scan_models(ConfiguredFiles, MediaMaster)]

InitBackend ==
    /\ inv = BaseInventory
    /\ edits = 0
    /\ fs \in { [ConfiguredFiles EXCEPT !.backend_list = m] : m \in Manifests }
    /\ config = SavedConfig
    /\ last = Idle
    /\ seen = NoCall
    /\ job = NoJob

\* auto_detect_backend as run calls it: the configuration has a disk path
\* and models (line 1373), the model is one of them (lines 1408-1426)
AutoDetectBackend ==
    /\ Truthy(config.disk_path)
    /\ config.models # << >>
    /\ \E k \in 1..Len(config.models) :
          last' = [op |-> "auto_detect_backend",
                   model_name |-> config.models[k].model_name,
                   ret |-> auto_detect_backend(config.models[k].model_name, config, fs)]
    /\ UNCHANGED <<inv, edits, fs, config, seen, job>>

NextBackend == AutoDetectBackend

SpecBackend == InitBackend /\ [][NextBackend]_vars

(***************************************************************************)
(* The settings flow around the classifiers: confirm_model_disk and        *)
(* confirm_cfeb_card persist what the classifiers found; the master disk   *)
(* is edited between two operations.                                       *)
(***************************************************************************)
\* os.path.exists of a path a classifier returned: a mount point or a
\* device node of the inventory
ResultExists(i, path) ==
    \/ PathExists(i, path)
    \/ \E k \in 1..Len(AllSlots) :
          /\ HasPart(i, AllSlots[k][1], AllSlots[k][2])
          /\ i.disks[AllSlots[k][1]].parts[AllSlots[k][2]].mount = path

\* the files below path: those of the master disk at its mount point,
\* nothing anywhere else
FilesAt(f, path) == IF path = MediaMaster THEN f ELSE NoFiles

\* the folders and manifests the master disk has in the settings flow
FlowListings ==
    { << >>,
      ConfiguredFolders,
      << Item(<< "x", "_", "y" >>, TRUE), ConfiguredFolders[2] >> }

FlowManifests ==
    { NoManifest,
      [kind |-> "mapping",
       items |-> << [backend |-> FlashInfer,
                     models |-> [type |-> "list", str |-> Empty,
                                 list |-> << << "G","L","M","-","4" >> >>]],
                    [backend |-> OtherBackend,
                     models |-> [type |-> "str", list |-> << >>,
                                 str |-> << "L","l","a","m","a","3",
                                            ","," ","\"","7","B","\"" >>]] >>] }

FlowFiles ==
    { [download_dirs |-> { possible_names[1] }, listing |-> l, backend_list |-> m] :
        l \in FlowListings, m \in FlowManifests }

\* the card is plugged in or not
FlowInventories ==
    { BaseInventory, [BaseInventory EXCEPT !.disks["b"] = AbsentDisk] }

InitFlow ==
    /\ inv \in FlowInventories
    /\ edits = 0
    /\ fs \in FlowFiles
    /\ config = NoConfig
    /\ last = Idle
    /\ seen = NoCall
    /\ job = NoJob

\* a confirm_model_disk that saves a configuration of its own making
ConfirmModelDiskFresh ==
    \E disk_path \in { find_rminte_models_disk(inv) } :
        \E models \in { scan_models(FilesAt(fs, disk_path), disk_path) } :
            /\ config' = IF /\ Truthy(disk_path)
                            /\ ResultExists(inv, disk_path)
                            /\ models # << >>
                         THEN [NoConfig EXCEPT !.disk_path = disk_path,
                                               !.models = models]
                         ELSE config
            /\ last' = [op |-> "confirm_model_disk", ret |-> None]
            /\ UNCHANGED <<inv, edits, fs, seen, job>>

\* confirm_model_disk: find the master disk, scan its models, save both
ConfirmModelDisk ==
    \E disk_path \in { find_rminte_models_disk(inv) } :
        \E models \in { scan_models(FilesAt(fs, disk_path), disk_path) } :
            /\ config' = IF /\ Truthy(disk_path)
                            /\ ResultExists(inv, disk_path)
                            /\ models # << >>
                         THEN [config EXCEPT !.disk_path = disk_path,
                                             !.models = models]
                         ELSE config
            /\ last' = [op |-> "confirm_model_disk", ret |-> None]
            /\ UNCHANGED <<inv, edits, fs, seen, job>>

\* confirm_cfeb_card: find the target card, read its labels, save both
ConfirmCfebCard ==
    \E disk_device \in { find_target_cfeb_card(inv) } :
        /\ config' = IF Truthy(disk_device)
                     THEN [config EXCEPT
                             !.cfeb_card = disk_device,
                             !.target_partitions =
                                 partition_labels(BlkidLines(inv), disk_device)]
                     ELSE config
        /\ last' = [op |-> "confirm_cfeb_card", ret |-> Truthy(disk_device)]
        /\ UNCHANGED <<inv, edits, fs, seen, job>>

\* the folders or the manifest of the master disk are edited
ChangeMasterFiles ==
    /\ \E f \in FlowFiles :
          /\ f # fs
          /\ fs' = f
    /\ last' = Idle
    /\ UNCHANGED <<inv, edits, config, seen, job>>

\* the calls of the two resolvers
ResolverOps == {"scan_models", "auto_detect_backend"}

\* history: one call of a resolver is kept, with the manifest it read and
\* the configuration of that moment, to compare later calls with
Remember ==
    /\ seen = NoCall
    /\ last.op \in ResolverOps
    /\ seen' = [call |-> last, backend_list |-> fs.backend_list, config |-> config]
    /\ UNCHANGED <<inv, edits, fs, config, last, job>>

NextFlow ==
    \/ ConfirmModelDisk
    \/ ConfirmCfebCard
    \/ ChangeMasterFiles
    \/ FindRminteModelsDisk
    \/ FindTargetCfebCard
    \/ ScanModels
    \/ AutoDetectBackend
    \/ Remember

SpecFlow == InitFlow /\ [][NextFlow]_vars

(***************************************************************************)
(* The settings menu on a master disk that is mounted, not mounted, absent *)
(* or resolved to a path that does not exist.                              *)
(***************************************************************************)
\* the master disk: mounted, not mounted, absent, and one whose label only
\* contains the master label and which is mounted at /
SettingsInventories ==
    { BaseInventory,
      [BaseInventory EXCEPT !.disks["a"].parts[1] = Part(RMinte_Models, Empty)],
      [BaseInventory EXCEPT !.disks["a"] = BlankDisk],
      [BaseInventory EXCEPT !.disks["a"].parts[1] = Part(LongLabel, << "/" >>)] }

InitSettings ==
    /\ inv \in SettingsInventories
    /\ edits = 0
    /\ fs \in FlowFiles
    /\ config = NoConfig
    /\ last = Idle
    /\ seen = NoCall
    /\ job = NoJob

\* the master disk is mounted, unmounted, taken out or exchanged
ChangeMasterDisk ==
    /\ \E i \in SettingsInventories :
          /\ i # inv
          /\ inv' = i
    /\ last' = Idle
    /\ UNCHANGED <<edits, fs, config, seen, job>>

NextSettings ==
    \/ ConfirmModelDisk
    \/ ConfirmCfebCard
    \/ ChangeMasterFiles
    \/ ChangeMasterDisk

SpecSettings == InitSettings /\ [][NextSettings]_vars

(***************************************************************************)
(* The multi-item copy operations: copy_dev_config_files and               *)
(* copy_auto_and_dev_folders.  What the file system does to each item is   *)
(* given by the environment; the operations decide what is attempted and   *)
(* what is reported.                                                       *)
(***************************************************************************)
\* get_target_cfeb_device: target_cfeb_card or cfeb_card of the saved
\* configuration
get_target_cfeb_device(cfg) ==
    IF Truthy(cfg.target_cfeb_card) THEN cfg.target_cfeb_card ELSE cfg.cfeb_card

\* config_files of copy_dev_config_files, in dictionary order
config_files == << "embedding_run.yaml", "llm_run.yaml", "reranker_run.yaml" >>

\* folders_to_copy of copy_auto_and_dev_folders
folders_to_copy == << "auto", "dev" >>

\* the result of an operation that returned before its loop
NothingCopied == [ret |-> "False", copied |-> << >>, attempted |-> << >>]

\* lines 1221-1280: the loop over config_files from file k on and the
\* report after it; files[k] says what the file system does to file k
RECURSIVE ConfigFileLoop(_, _, _, _)
ConfigFileLoop(files, k, copied, attempted) ==
    IF k > Len(config_files)
    THEN [ret |-> IF Len(copied) > 0 THEN "True" ELSE "False",
          copied |-> copied, attempted |-> attempted]
    ELSE LET reached == Append(attempted, config_files[k])
         IN  CASE files[k] = "missing" ->
                    ConfigFileLoop(files, k + 1, copied, reached)
               [] files[k] = "mkdir_denied" ->
                    [ret |-> "False", copied |-> copied, attempted |-> reached]
               [] files[k] = "mkdir_error" ->
                    [ret |-> "Raised", copied |-> copied, attempted |-> reached]
               [] files[k] = "copy_fails" ->
                    ConfigFileLoop(files, k + 1, copied, reached)
               [] files[k] = "copied" ->
                    ConfigFileLoop(files, k + 1, Append(copied, config_files[k]), reached)

\* copy_dev_config_files(disk_path, vram, model_full_name) with the
\* saved configuration cfg, the inventory i and the source folder e
copy_dev_config_files(cfg, i, e) ==
    LET target_device == get_target_cfeb_device(cfg)
    IN  IF e.missing_dir # "none" THEN NothingCopied
        ELSE IF ~Truthy(target_device) THEN NothingCopied
        ELSE IF ~Truthy(get_mount_point(i, target_device \o << "2" >>)) THEN NothingCopied
        ELSE IF ~e.writable THEN NothingCopied
        ELSE ConfigFileLoop(e.files, 1, << >>, << >>)

\* lines 944-967: the sub-folders of tree/dev copied into an existing dev
\* folder: llm is skipped, the first failure ends the folder
DevMerged(items) == \A k \in 1..Len(items) : items[k] # "fails"

\* a merge that treats llm like every other item of tree/dev
RECURSIVE MergeLlmReplacing(_, _, _)
MergeLlmReplacing(items, k, llm) ==
    IF k > Len(items) THEN llm
    ELSE IF items[k] = "llm" THEN MergeLlmReplacing(items, k + 1, "replaced")
    ELSE IF items[k] = "fails" THEN llm
    ELSE MergeLlmReplacing(items, k + 1, llm)

\* lines 946-967: dev/llm of the target after the items of tree/dev from
\* item k on were merged: the item llm is skipped, every other item
\* replaces the target item of its own name, a failure ends the loop
RECURSIVE MergeLlm(_, _, _)
MergeLlm(items, k, llm) ==
    IF k > Len(items) THEN llm
    ELSE IF items[k] = "llm" THEN MergeLlm(items, k + 1, llm)
    ELSE IF items[k] = "fails" THEN llm
    ELSE MergeLlm(items, k + 1, llm)

\* lines 926-971: dev/llm of the target after the dev folder was handled
DevLlmAfter(t) ==
    IF t.dev.kind = "missing" THEN t.dev.llm
    ELSE IF t.dev.kind = "whole"
    THEN IF t.dev.whole = "copied" THEN "copied" ELSE "absent"
    ELSE MergeLlm(t.dev.items, 1, t.dev.llm)

\* lines 926-990: what happens to one folder: "missing", "copied", "fails"
FolderOutcome(t, name) ==
    IF name = "auto" THEN t.auto
    ELSE IF t.dev.kind = "missing" THEN "missing"
    ELSE IF t.dev.kind = "whole" THEN t.dev.whole
    ELSE IF DevMerged(t.dev.items) THEN "copied"
    ELSE "fails"

\* lines 919-1004: the loop over folders_to_copy from folder k on and the
\* report after it
RECURSIVE FolderLoop(_, _, _, _)
FolderLoop(t, k, copied, attempted) ==
    IF k > Len(folders_to_copy)
    THEN [ret |-> IF Len(copied) > 0 THEN "True" ELSE "False",
          copied |-> copied, attempted |-> attempted]
    ELSE LET reached == Append(attempted, folders_to_copy[k])
         IN  IF FolderOutcome(t, folders_to_copy[k]) = "copied"
             THEN FolderLoop(t, k + 1, Append(copied, folders_to_copy[k]), reached)
             ELSE FolderLoop(t, k + 1, copied, reached)

\* copy_auto_and_dev_folders(config) with the inventory i and the tree
\* folder t of the master disk
copy_auto_and_dev_folders(cfg, i, t) ==
    LET target_device == get_target_cfeb_device(cfg)
    IN  IF ~Truthy(cfg.disk_path) THEN NothingCopied
        ELSE IF ~Truthy(target_device) THEN NothingCopied
        ELSE IF ~Truthy(get_mount_point(i, target_device \o << "2" >>)) THEN NothingCopied
        ELSE IF ~t.exists THEN NothingCopied
        ELSE FolderLoop(t, 1, << >>, << >>)

\* what the file system can do to one config file
FileOutcomes == {"missing", "copied", "copy_fails", "mkdir_denied", "mkdir_error"}

\* the source folder Model_dev_yaml/<vram>/<model> and the target mount
DevYamlFolders ==
    { [missing_dir |-> "none", writable |-> TRUE, files |-> f] :
        f \in [1..Len(config_files) -> FileOutcomes] }
    \cup { [missing_dir |-> d, writable |-> w,
            files |-> [k \in 1..Len(config_files) |-> "copied"]] :
             d \in {"none", "Model_dev_yaml", "vram", "model"}, w \in BOOLEAN }

\* at most n sub-folders of tree/dev
RECURSIVE DevItems(_)
DevItems(n) ==
    IF n = 0 THEN { << >> }
    ELSE DevItems(n - 1)
         \cup { Append(l, x) : l \in { m \in DevItems(n - 1) : Len(m) = n - 1 },
                               x \in {"llm", "copied", "fails"} }

\* the tree folder of the master disk and the dev folder of the target:
\* tree/dev is missing, the target has no dev folder and gets the whole of
\* tree/dev, or the target has a dev folder the items of tree/dev are
\* merged into; llm says whether the target has a dev/llm folder with the
\* models copied to it earlier
TreeFolders ==
    { [exists |-> x, auto |-> a, dev |-> d] :
        x \in BOOLEAN,
        a \in {"missing", "copied", "fails"},
        d \in { [kind |-> "missing", whole |-> "copied", items |-> << >>, llm |-> m] :
                   m \in {"absent", "kept"} }
              \cup { [kind |-> "whole", whole |-> w, items |-> << >>, llm |-> "absent"] :
                       w \in {"copied", "fails"} }
              \cup { [kind |-> "merge", whole |-> "copied", items |-> l, llm |-> m] :
                       l \in DevItems(MaxSubFolders), m \in {"absent", "kept"} } }

\* the card with its models partition mounted
MountedCard ==
    [CardDisk EXCEPT !.parts[2] = Part(Keyword(2), Mnt(Keyword(2)))]

CopyInventories ==
    { BaseInventory, [BaseInventory EXCEPT !.disks["b"] = MountedCard] }

\* configurations after the settings flow: with or without a target card
CopyConfigs ==
    { NoConfig,
      SavedConfig,
      [SavedConfig EXCEPT !.cfeb_card = DiskPath("b")],
      [SavedConfig EXCEPT !.target_cfeb_card = DiskPath("b")] }

AllCopied ==
    [missing_dir |-> "none", writable |-> TRUE,
     files |-> [k \in 1..Len(config_files) |-> "copied"]]

NoTree ==
    [exists |-> FALSE, auto |-> "missing",
     dev |-> [kind |-> "missing", whole |-> "copied", items |-> << >>,
              llm |-> "absent"]]

InitCopy ==
    /\ inv \in CopyInventories
    /\ edits = 0
    /\ fs \in { [download_dirs |-> {}, listing |-> << >>, backend_list |-> NoManifest,
                 dev_yaml |-> d, tree |-> NoTree] : d \in DevYamlFolders }
              \cup
              { [download_dirs |-> {}, listing |-> << >>, backend_list |-> NoManifest,
                 dev_yaml |-> AllCopied, tree |-> t] : t \in TreeFolders }
    /\ config \in CopyConfigs
    /\ last = Idle
    /\ seen = NoCall
    /\ job = NoJob

CopyDevConfigFiles ==
    /\ last' = [op |-> "copy_dev_config_files"]
                  @@ copy_dev_config_files(config, inv, fs.dev_yaml)
    /\ UNCHANGED <<inv, edits, fs, config, seen, job>>

\* dev/llm of the target after copy_auto_and_dev_folders(config)
dev_llm_after(cfg, i, t) ==
    IF \E k \in 1..Len(copy_auto_and_dev_folders(cfg, i, t).attempted) :
          copy_auto_and_dev_folders(cfg, i, t).attempted[k] = "dev"
    THEN DevLlmAfter(t)
    ELSE t.dev.llm

CopyAutoAndDevFolders ==
    /\ last' = [op |-> "copy_auto_and_dev_folders",
                llm |-> dev_llm_after(config, inv, fs.tree)]
                  @@ copy_auto_and_dev_folders(config, inv, fs.tree)
    /\ UNCHANGED <<inv, edits, fs, config, seen, job>>

NextCopy ==
    \/ CopyDevConfigFiles
    \/ CopyAutoAndDevFolders

SpecCopy == InitCopy /\ [][NextCopy]_vars

(***************************************************************************)
(* The make-card flow (run): verify the target card, copy the auto and dev *)
(* folders, choose backend and model, copy the backend, copy the model,    *)
(* copy the dev configuration.  Each step is one action; job.pc is the     *)
(* position of run and job.trace the steps it has executed.                *)
(***************************************************************************)
\* MANUFACTURERS, in menu order
MANUFACTURERS ==
    << Qwen,
       << "G","P","T" >>,
       << "L","l","a","m","a" >>,
       << "D","e","e","p","S","e","e","k" >>,
       << "G","e","m","m","a" >>,
       ZhipuAI,
       Others >>

\* known_manufacturers of filter_models_by_manufacturer
filter_known_manufacturers == SubSeq(MANUFACTURERS, 1, 6)

\* a filter that puts only the literal manufacturer Others in the Others
\* choice
filter_models_literal(manufacturer, models) ==
    SelectSeq(models, LAMBDA model : model.manufacturer = manufacturer)

filter_models_by_manufacturer(manufacturer, models) ==
    SelectSeq(models,
        LAMBDA model :
            IF manufacturer = Others
            THEN \A k \in 1..Len(filter_known_manufacturers) :
                    model.manufacturer # filter_known_manufacturers[k]
            ELSE model.manufacturer = manufacturer)

\* copy_backend(backend_type, config) with the saved configuration cfg, the
\* inventory i and the environment e of the copy
copy_backend(backend_type, cfg, i, e) ==
    LET target_device == get_target_cfeb_device(cfg)
    IN  /\ Truthy(cfg.disk_path)
        /\ backend_type \in {"1", "2"}
        /\ IF backend_type = "1" THEN e.attention_src ELSE e.infer_src
        /\ Truthy(target_device)
        /\ Truthy(get_mount_point(i, target_device \o << "1" >>))
        /\ e.rootfs_writable
        /\ e.backend_copy = "copied"

\* copy_model(model) with the saved configuration cfg
copy_model(model, cfg, i, e) ==
    LET target_device == get_target_cfeb_device(cfg)
    IN  /\ Truthy(target_device)
        /\ Truthy(get_mount_point(i, target_device \o << "2" >>))
        /\ e.models_writable
        /\ e.model_copy = "copied"

\* what a step of run reads: the disk path of the configuration run loaded
\* at line 1370, the target card of the configuration as it is saved now
Loaded(j) == [config EXCEPT !.disk_path = j.config.disk_path]

\* verify_target_cfeb_card() on the saved configuration cfg: the
\* configuration it leaves and what it returns
verify_target_cfeb_card(cfg, i, user_input) ==
    LET disk_device == find_target_cfeb_card(i)
    IN  IF ~Truthy(disk_device) THEN [config |-> cfg, ret |-> FALSE]
        ELSE [config |-> [cfg EXCEPT
                            !.target_cfeb_card = disk_device,
                            !.target_partitions =
                                partition_labels(BlkidLines(i), disk_device)],
              ret |-> user_input # "0"]

\* one executed step of run
Step(name, ok) == [step |-> name, ok |-> ok]

\* run has left: back in the main menu or ended by an exception
Returned(j) == [j EXCEPT !.pc = "returned"]

\* a start of run that skips the configuration check
RunStartUnchecked ==
    /\ job.pc = "menu"
    /\ job' = [NoJob EXCEPT !.config = config, !.pc = "verify"]
    /\ last' = [op |-> "run", ret |-> None]
    /\ UNCHANGED <<inv, edits, fs, config, seen>>

\* lines 1369-1377: load the configuration and check it
RunStart ==
    /\ job.pc = "menu"
    /\ job' = [NoJob EXCEPT
                 !.config = config,
                 !.pc = IF ~Truthy(config.disk_path) \/ config.models = << >>
                        THEN "returned" ELSE "verify"]
    /\ last' = [op |-> "run", ret |-> None]
    /\ UNCHANGED <<inv, edits, fs, config, seen>>

\* a start of run that goes to the folder copy without the verification
RunVerifySkipped ==
    /\ job.pc = "verify"
    /\ job' = [job EXCEPT !.pc = "folders"]
    /\ UNCHANGED <<inv, edits, fs, config, last, seen>>

\* lines 1379-1381: verify_target_cfeb_card, which saves the card it finds
RunVerify ==
    /\ job.pc = "verify"
    /\ \E user_input \in {"", "0"} :
          \E v \in { verify_target_cfeb_card(config, inv, user_input) } :
              /\ config' = v.config
              /\ job' = [job EXCEPT
                           !.trace = Append(@, Step("verify", v.ret)),
                           !.pc = IF v.ret THEN "folders" ELSE "returned"]
    /\ UNCHANGED <<inv, edits, fs, last, seen>>

\* a folder step whose failure does not end run
RunCopyFoldersLenient ==
    /\ job.pc = "folders"
    /\ LET ok == copy_auto_and_dev_folders(Loaded(job), inv, fs.tree).ret = "True"
       IN  job' = [job EXCEPT
                     !.trace = Append(@, Step("folders", ok)),
                     !.pc = "select"]
    /\ UNCHANGED <<inv, edits, fs, config, last, seen>>

\* lines 1383-1386: copy_auto_and_dev_folders(config)
RunCopyFolders ==
    /\ job.pc = "folders"
    /\ LET ok == copy_auto_and_dev_folders(Loaded(job), inv, fs.tree).ret = "True"
       IN  job' = [job EXCEPT
                     !.trace = Append(@, Step("folders", ok)),
                     !.pc = IF ok THEN "select" ELSE "returned"]
    /\ UNCHANGED <<inv, edits, fs, config, last, seen>>

\* lines 1388-1421: the user chooses backend, manufacturer and model
RunSelect ==
    /\ job.pc = "select"
    /\ \E backend_choice \in {"1", "2", "3"}, m \in 1..Len(MANUFACTURERS) :
          LET filtered_models ==
                  filter_models_by_manufacturer(MANUFACTURERS[m], job.config.models)
          IN  IF filtered_models = << >>
              THEN job' = Returned(job)
              ELSE \E k \in 1..Len(filtered_models) :
                      job' = [job EXCEPT !.backend_choice = backend_choice,
                                         !.selected_model = filtered_models[k],
                                         !.pc = "backend"]
    /\ UNCHANGED <<inv, edits, fs, config, last, seen>>

\* the backend choice copy_backend is called with for a detected backend,
\* "none" when run calls it for no backend (lines 1430-1439)
BackendChoiceOf(backend_type) ==
    IF backend_type = FlashAttention THEN "1"
    ELSE IF backend_type = FlashInfer THEN "2"
    ELSE "none"

\* lines 1423-1450: resolve the backend in automatic mode, copy the backend
RunBackend ==
    /\ job.pc = "backend"
    /\ IF job.backend_choice = "3"
       THEN \E backend_type \in
                 { auto_detect_backend(job.selected_model.model_name, job.config, fs) } :
               LET resolved == Append(job.trace, Step("resolve", Truthy(backend_type)))
                   choice == BackendChoiceOf(backend_type)
                   ok == copy_backend(choice, Loaded(job), inv, fs.target)
               IN  job' = IF ~Truthy(backend_type)
                          THEN [job EXCEPT !.trace = resolved, !.pc = "returned"]
                          ELSE IF choice = "none"
                          THEN [job EXCEPT !.trace = resolved,
                                           !.backend_type = backend_type,
                                           !.pc = "model"]
                          ELSE [job EXCEPT
                                  !.trace = Append(resolved, Step("backend", ok)),
                                  !.backend_type = backend_type,
                                  !.pc = IF ok THEN "model" ELSE "returned"]
       ELSE LET ok == copy_backend(job.backend_choice, Loaded(job), inv, fs.target)
            IN  job' = [job EXCEPT
                          !.trace = Append(@, Step("backend", ok)),
                          !.backend_type =
                              IF job.backend_choice = "1" THEN FlashAttention
                              ELSE FlashInfer,
                          !.pc = IF ok THEN "model" ELSE "returned"]
    /\ UNCHANGED <<inv, edits, fs, config, last, seen>>

\* lines 1452-1456: copy_model(selected_model)
RunCopyModel ==
    /\ job.pc = "model"
    /\ LET ok == copy_model(job.selected_model, Loaded(job), inv, fs.target)
       IN  job' = [job EXCEPT
                     !.trace = Append(@, Step("model", ok)),
                     !.pc = IF ok THEN "dev_config" ELSE "returned"]
    /\ UNCHANGED <<inv, edits, fs, config, last, seen>>

\* lines 1458-1480: ask_dev_config, then copy_dev_config_files
RunDevConfig ==
    /\ job.pc = "dev_config"
    /\ \E need_dev_config \in BOOLEAN :
          IF ~need_dev_config
          THEN job' = [job EXCEPT !.pc = "complete"]
          ELSE LET ret == copy_dev_config_files(Loaded(job), inv, fs.dev_yaml).ret
               IN  job' = [job EXCEPT
                             !.trace = Append(@, Step("dev_config", ret = "True")),
                             !.pc = CASE ret = "True" -> "complete"
                                      [] ret = "False" -> "returned"
                                      [] ret = "Raised" -> "raised"]
    /\ UNCHANGED <<inv, edits, fs, config, last, seen>>

\* the main menu after run has ended
RunEnd ==
    /\ job.pc \in {"complete", "returned", "raised"}
    /\ job' = NoJob
    /\ last' = Idle
    /\ UNCHANGED <<inv, edits, fs, config, seen>>

\* the card with its rootfs and models partitions mounted
ReadyCard ==
    [CardDisk EXCEPT !.parts[1] = Part(Keyword(1), Mnt(Keyword(1))),
                     !.parts[2] = Part(Keyword(2), Mnt(Keyword(2)))]

\* the card is absent, plugged in but not mounted, or mounted
RunInventories ==
    { [BaseInventory EXCEPT !.disks["b"] = AbsentDisk],
      BaseInventory,
      [BaseInventory EXCEPT !.disks["b"] = ReadyCard] }

\* a master disk with a folder of an unlisted manufacturer
OtherFolders == << Item(<< "x", "_", "y" >>, TRUE), ConfiguredFolders[2] >>

\* the configurations run can find: none, one without models, the saved one,
\* one with a model of an unlisted manufacturer, one with a confirmed card
RunConfigs ==
    { NoConfig,
      [SavedConfig EXCEPT !.models = << >>],
      SavedConfig,
      [SavedConfig EXCEPT
         !.models = scan_models([ConfiguredFiles EXCEPT !.listing = OtherFolders],
                                MediaMaster)],
      [SavedConfig EXCEPT !.cfeb_card = DiskPath("b")] }

\* a target every copy succeeds on
GoodTarget ==
    [attention_src |-> TRUE, infer_src |-> TRUE,
     rootfs_writable |-> TRUE, models_writable |-> TRUE,
     backend_copy |-> "copied", model_copy |-> "copied"]

\* the targets with one thing wrong
RunTargets ==
    { GoodTarget,
      [GoodTarget EXCEPT !.attention_src = FALSE],
      [GoodTarget EXCEPT !.infer_src = FALSE],
      [GoodTarget EXCEPT !.rootfs_writable = FALSE],
      [GoodTarget EXCEPT !.models_writable = FALSE],
      [GoodTarget EXCEPT !.backend_copy = "mkdir_denied"],
      [GoodTarget EXCEPT !.backend_copy = "fails"],
      [GoodTarget EXCEPT !.model_copy = "fails"] }

GoodTree ==
    [exists |-> TRUE, auto |-> "copied",
     dev |-> [kind |-> "whole", whole |-> "copied", items |-> << >>,
              llm |-> "absent"]]

RunTrees ==
    { GoodTree,
      NoTree,
      [GoodTree EXCEPT !.auto = "fails"],
      [GoodTree EXCEPT !.auto = "fails", !.dev.whole = "fails"] }

RunDevYamlFolders ==
    { AllCopied,
      [AllCopied EXCEPT !.files[2] = "mkdir_denied"],
      [AllCopied EXCEPT !.files[3] = "mkdir_error"],
      [AllCopied EXCEPT !.missing_dir = "model"] }

\* the master disk and the target all steps of run succeed on
GoodFiles ==
    [download_dirs |-> { possible_names[1] }, listing |-> ConfiguredFolders,
     backend_list |-> NoManifest, dev_yaml |-> AllCopied, tree |-> GoodTree,
     target |-> GoodTarget]

\* the environments of run: GoodFiles with one part varied
RunFiles ==
    { [GoodFiles EXCEPT !.backend_list = m] : m \in FlowManifests }
    \cup { [GoodFiles EXCEPT !.tree = t] : t \in RunTrees }
    \cup { [GoodFiles EXCEPT !.dev_yaml = d] : d \in RunDevYamlFolders }
    \cup { [GoodFiles EXCEPT !.target = t] : t \in RunTargets }
    \cup { [GoodFiles EXCEPT !.target = t, !.backend_list = m] :
              t \in RunTargets, m \in FlowManifests }

InitRun ==
    /\ inv \in RunInventories
    /\ edits = 0
    /\ fs \in RunFiles
    /\ config \in RunConfigs
    /\ last = Idle
    /\ seen = NoCall
    /\ job = NoJob

NextRun ==
    \/ RunStart
    \/ RunVerify
    \/ RunCopyFolders
    \/ RunSelect
    \/ RunBackend
    \/ RunCopyModel
    \/ RunDevConfig
    \/ RunEnd

SpecRun == InitRun /\ [][NextRun]_vars

(***************************************************************************)
(* The two operations that save a target card, confirm_cfeb_card of the    *)
(* settings menu and verify_target_cfeb_card of run, while cards are moved *)
(* between the drives.                                                     *)
(***************************************************************************)
\* one mounted card: in drive a, in drive b, or in none
CardInventories ==
    { [disks |-> [letter \in DiskSet |-> IF letter = d THEN ReadyCard ELSE AbsentDisk]] :
        d \in DiskSet \cup { "none" } }

InitCard ==
    /\ inv \in CardInventories
    /\ edits = 0
    /\ fs = GoodFiles
    /\ config = SavedConfig
    /\ last = Idle
    /\ seen = NoCall
    /\ job = NoJob

\* a card is put into a drive or taken out
MoveCard ==
    /\ \E i \in CardInventories :
          /\ i # inv
          /\ inv' = i
    /\ UNCHANGED <<edits, fs, config, last, seen, job>>

\* confirm_cfeb_card from the settings menu, which is open when run is not
SettingsConfirmCfebCard == job.pc = "menu" /\ ConfirmCfebCard

NextCard ==
    \/ MoveCard
    \/ SettingsConfirmCfebCard
    \/ NextRun

SpecCard == InitCard /\ [][NextCard]_vars

(***************************************************************************)
(* The manufacturer menu over the entries of a scan: scan_models on the    *)
(* master disk, then filter_models_by_manufacturer for a menu choice.      *)
(***************************************************************************)
InitMenu == InitScan

\* select_manufacturer returns one of MANUFACTURERS; the scanned models are
\* filtered by it
FilterModels ==
    /\ last.op = "scan_models"
    /\ \E m \in 1..Len(MANUFACTURERS) :
          last' = [op |-> "filter_models_by_manufacturer",
                   manufacturer |-> MANUFACTURERS[m],
                   models |-> last.ret,
                   ret |-> filter_models_by_manufacturer(MANUFACTURERS[m], last.ret)]
    /\ UNCHANGED <<inv, edits, fs, config, seen, job>>

NextMenu ==
    \/ ScanModels
    \/ FilterModels

SpecMenu == InitMenu /\ [][NextMenu]_vars

(***************************************************************************)
(* Properties of the disk classifier (checked under SpecDisk).             *)
(***************************************************************************)
RanTarget == last.op = "find_target_cfeb_card"

RanMaster == last.op = "find_rminte_models_disk"

\* the drive letter of a returned disk path /dev/sdX
LetterOf(disk_device) == disk_device[Len(disk_device)]

\* the partition n of disk letter, as the inventory has it
PartOf(letter, n) == inv.disks[letter].parts[n]

\* the partitions of the inventory whose label is exactly the master label
MasterParts ==
    { lp \in DiskSet \X PartNumbers :
        HasPart(inv, lp[1], lp[2]) /\ PartOf(lp[1], lp[2]).label = RMinte_Models }

\* the partition find_rminte_models_disk resolves by its label: the first
\* one blkid lists
ResolvedMaster ==
    CHOOSE lp \in MasterParts :
        \A other \in MasterParts :
            \/ other = lp
            \/ \E k \in 1..Len(AllSlots) :
                  /\ AllSlots[k] = lp
                  /\ \E j \in (k + 1)..Len(AllSlots) : AllSlots[j] = other

\* partition n of the disk matches its role keyword by label or mount path
RoleMatches(letter, n) ==
    \/ In(Keyword(n), Lower(PartOf(letter, n).label))
    \/ In(Keyword(n), Lower(PartOf(letter, n).mount))

\* C1: the disk find_target_cfeb_card returns is never the disk that holds
\* the partition labelled RMinte_Models which find_rminte_models_disk
\* resolves, whichever partition number carries the label.
C1_TargetIsNotMaster ==
    (RanTarget /\ last.ret # None /\ MasterParts # {})
        => LetterOf(last.ret) # ResolvedMaster[1]

\* C2: a disk is returned only if each of partitions 1, 2, 3 matches its
\* role keyword (rootfs, models, app) by its label or by its mount path,
\* compared case-insensitively.
C2_AllRolesMatch ==
    (RanTarget /\ last.ret # None)
        => \A n \in 1..3 : RoleMatches(LetterOf(last.ret), n)

\* C3: a disk whose partition 2 has a label or a mount path containing
\* RMinte_Models is never returned.
C3_MasterLabelOnModelsRejected ==
    (RanTarget /\ last.ret # None)
        => /\ ~In(RMinte_Models, PartOf(LetterOf(last.ret), 2).label)
           /\ ~In(RMinte_Models, PartOf(LetterOf(last.ret), 2).mount)

\* C4: a disk that lacks one of the partitions 1, 2, 3 is never returned,
\* whatever the labels and mount paths of the partitions it has.
C4_MissingPartitionExcluded ==
    RanTarget =>
        \A letter \in DiskSet :
            (\E n \in 1..3 : ~HasPart(inv, letter, n))
                => last.ret # DiskPath(letter)

\* C4 witness: the scan ran over a disk that has lost one of the three
\* partitions while a partition sharing its path prefix carries the label
\* of the lost role.
C4_Witness ==
    /\ RanTarget
    /\ \E letter \in DiskSet, n \in 1..3 :
          /\ inv.disks[letter].present
          /\ ~HasPart(inv, letter, n)
          /\ HasPart(inv, letter, 10 * n)
          /\ \A m \in (1..3) \ {n} : HasPart(inv, letter, m) /\ RoleMatches(letter, m)
    /\ last.ret = None

\* the loop body accepts the disk with drive letter DriveLetters[k]
AcceptedAt(k) ==
    /\ PathExists(inv, DiskPath(DriveLetters[k]))
    /\ DiskAccepted(inv, BlkidLines(inv), DiskPath(DriveLetters[k]))

C6_NoLabelNoMaster ==
    (RanMaster /\ MasterParts = {}) => last.ret = None

\* C7: with exactly one partition labelled RMinte_Models the result is its
\* mount point when it is mounted, and its device path otherwise.
C7_MountPointElseDevice ==
    (RanMaster /\ Cardinality(MasterParts) = 1) =>
        \A lp \in MasterParts :
            last.ret = IF PartOf(lp[1], lp[2]).mount # Empty
                       THEN PartOf(lp[1], lp[2]).mount
                       ELSE PartPath(lp[1], lp[2])

\* C7 witness: the one labelled partition is mounted, another partition has
\* a label that merely contains the master label, and the mount point came
\* back.
C7_Witness ==
    /\ RanMaster
    /\ Cardinality(MasterParts) = 1
    /\ \E lp \in MasterParts :
          /\ PartOf(lp[1], lp[2]).mount # Empty
          /\ last.ret = PartOf(lp[1], lp[2]).mount
    /\ \E lp \in DiskSet \X PartNumbers :
          HasPart(inv, lp[1], lp[2]) /\ PartOf(lp[1], lp[2]).label = LongLabel


\* the partition numbers the disk with this drive letter has
PartsOfDisk(letter) == { n \in PartNumbers : HasPart(inv, letter, n) }

\* C16: every disk find_target_cfeb_card returns has exactly three
\* partitions, the numbers 1, 2 and 3; a disk with further partitions is
\* not returned.
C16_ExactlyThreePartitions ==
    (RanTarget /\ last.ret # None) => PartsOfDisk(LetterOf(last.ret)) = {1, 2, 3}

\* the partitions with the master label in the order blkid lists them
MasterSlots == SelectSeq(AllSlots, LAMBDA lp : lp \in MasterParts)

\* what resolving the partition lp gives: its mount point when mounted,
\* else its device path
ResolutionOf(lp) ==
    IF PartOf(lp[1], lp[2]).mount # Empty
    THEN PartOf(lp[1], lp[2]).mount
    ELSE PartPath(lp[1], lp[2])

\* C17: when several partitions carry the label RMinte_Models, the first
\* of them in the order of the listing is resolved; a later one never
\* replaces it.
C17_FirstLabelledPartitionWins ==
    (RanMaster /\ Cardinality(MasterParts) >= 2)
        => last.ret = ResolutionOf(MasterSlots[1])

\* C17 witness: two partitions carry the label, the first is not mounted,
\* the second is, and the device path of the first came back.
C17_Witness ==
    /\ RanMaster
    /\ Len(MasterSlots) = 2
    /\ PartOf(MasterSlots[1][1], MasterSlots[1][2]).mount = Empty
    /\ PartOf(MasterSlots[2][1], MasterSlots[2][2]).mount # Empty
    /\ last.ret = PartPath(MasterSlots[1][1], MasterSlots[1][2])

(***************************************************************************)
(* Properties of the backend resolver (checked under SpecBackend).         *)
(***************************************************************************)
RanBackend == last.op = "auto_detect_backend"

\* the three-way match of the claims between a model name and a pattern
ThreeWay(name, p) == p = name \/ In(name, p) \/ In(p, name)

\* the pattern without the quote characters around it
Unquoted(p) == Strip(p, {"\"", "'"})

\* the manifest is a mapping whose values are all lists
ListManifest ==
    /\ fs.backend_list.kind = "mapping"
    /\ \A k \in 1..Len(fs.backend_list.items) :
          fs.backend_list.items[k].models.type = "list"

\* backend k of the manifest has a pattern that matches as written
RawHit(k) ==
    \E j \in 1..Len(fs.backend_list.items[k].models.list) :
        ThreeWay(last.model_name, fs.backend_list.items[k].models.list[j])

\* backend k of the manifest has a pattern that matches once unquoted
UnquotedHit(k) ==
    \E j \in 1..Len(fs.backend_list.items[k].models.list) :
        ThreeWay(last.model_name, Unquoted(fs.backend_list.items[k].models.list[j]))

C9_FirstBackendWithPattern ==
    (RanBackend /\ ListManifest) =>
        \A k \in 1..Len(fs.backend_list.items) :
            (RawHit(k) /\ \A j \in 1..(k - 1) : ~RawHit(j))
                => last.ret = fs.backend_list.items[k].backend

\* C9 amended: with list values, the result is the first backend, in
\* manifest order, that has a pattern p which, with the quote characters
\* around it removed, is equal to the model name, contains it or is
\* contained in it.
C9_FirstBackendWithUnquotedPattern ==
    (RanBackend /\ ListManifest) =>
        \A k \in 1..Len(fs.backend_list.items) :
            (UnquotedHit(k) /\ \A j \in 1..(k - 1) : ~UnquotedHit(j))
                => last.ret = fs.backend_list.items[k].backend

\* C9 witness: two backends have a matching pattern, the first of them is
\* not the default, and the first came back.
C9_Witness ==
    /\ RanBackend
    /\ ListManifest
    /\ Len(fs.backend_list.items) = 2
    /\ UnquotedHit(1)
    /\ UnquotedHit(2)
    /\ fs.backend_list.items[1].backend # FlashAttention
    /\ last.ret = fs.backend_list.items[1].backend

\* the manifest is a mapping whose values are all strings
StringManifest ==
    /\ fs.backend_list.kind = "mapping"
    /\ fs.backend_list.items # << >>
    /\ \A k \in 1..Len(fs.backend_list.items) :
          fs.backend_list.items[k].models.type = "str"

\* the characters between the tokens of a string value
TokenSeparators == {",", "U+FF0C", " ", "\t", "\n"}

\* positions i..j of s hold a token: a longest stretch without separator
IsToken(s, i, j) ==
    /\ i <= j
    /\ \A x \in i..j : s[x] \notin TokenSeparators
    /\ i = 1 \/ s[i - 1] \in TokenSeparators
    /\ j = Len(s) \/ s[j + 1] \in TokenSeparators

\* the string of backend k has a token that matches as written
RawTokenHit(k) ==
    LET s == fs.backend_list.items[k].models.str
    IN  \E i \in 1..Len(s), j \in 1..Len(s) :
            IsToken(s, i, j) /\ ThreeWay(last.model_name, SubSeq(s, i, j))

\* the string of backend k has a token that matches once unquoted
UnquotedTokenHit(k) ==
    LET s == fs.backend_list.items[k].models.str
    IN  \E i \in 1..Len(s), j \in 1..Len(s) :
            IsToken(s, i, j) /\ ThreeWay(last.model_name, Unquoted(SubSeq(s, i, j)))

\* C15 as claimed: with string values, each string is split at the runs of
\* comma, full-width comma and whitespace, and the result is the first
\* backend, in manifest order, with a token equal to the model name,
\* containing it or contained in it; without such a token the default.
C15_FirstBackendWithToken ==
    (RanBackend /\ StringManifest) =>
        /\ \A k \in 1..Len(fs.backend_list.items) :
              (RawTokenHit(k) /\ \A j \in 1..(k - 1) : ~RawTokenHit(j))
                  => last.ret = fs.backend_list.items[k].backend
        /\ (\A k \in 1..Len(fs.backend_list.items) : ~RawTokenHit(k))
              => last.ret = FlashAttention

\* C15 amended: the same with every token compared after the quote
\* characters around it are removed.
C15_FirstBackendWithUnquotedToken ==
    (RanBackend /\ StringManifest) =>
        /\ \A k \in 1..Len(fs.backend_list.items) :
              (UnquotedTokenHit(k) /\ \A j \in 1..(k - 1) : ~UnquotedTokenHit(j))
                  => last.ret = fs.backend_list.items[k].backend
        /\ (\A k \in 1..Len(fs.backend_list.items) : ~UnquotedTokenHit(k))
              => last.ret = FlashAttention

\* C15 witness: two string values; the first has no matching token, the
\* second has one between a full-width comma and quotes, and the second
\* backend, which is not the default, came back.
C15_Witness ==
    /\ RanBackend
    /\ StringManifest
    /\ Len(fs.backend_list.items) = 2
    /\ ~UnquotedTokenHit(1)
    /\ UnquotedTokenHit(2)
    /\ ~RawTokenHit(2)
    /\ "U+FF0C" \in { fs.backend_list.items[2].models.str[x] :
                        x \in 1..Len(fs.backend_list.items[2].models.str) }
    /\ fs.backend_list.items[2].backend # FlashAttention
    /\ last.ret = fs.backend_list.items[2].backend

(***************************************************************************)
(* Properties of the manufacturer classifier (checked under SpecScan).     *)
(***************************************************************************)
RanScan == last.op = "scan_models"

\* the upper-cased name contains GLM: the letters g, l, m in a row, in
\* any case
ContainsGLM(name) ==
    \E i \in 1..(Len(name) - 2) :
        /\ name[i] \in {"G", "g"}
        /\ name[i + 1] \in {"L", "l"}
        /\ name[i + 2] \in {"M", "m"}

\* C10: every folder whose upper-cased name contains GLM is entered with
\* manufacturer ZhipuAI and the whole folder name as model name, also when
\* the name starts with a known manufacturer or contains a separator.
C10_GLMIsZhipuAI ==
    RanScan =>
        \A k \in 1..Len(last.ret) :
            ContainsGLM(last.ret[k].full_name)
                => /\ last.ret[k].manufacturer = ZhipuAI
                   /\ last.ret[k].model_name = last.ret[k].full_name

\* C10 witness: a scanned folder starts with the known manufacturer Qwen,
\* contains a separator and glm in lower case, and is entered as ZhipuAI.
C10_Witness ==
    /\ RanScan
    /\ \E k \in 1..Len(last.ret) :
          /\ last.ret[k].full_name = fs.listing[k].name
          /\ StartsWith(last.ret[k].full_name, Qwen)
          /\ In(<< "_" >>, last.ret[k].full_name)
          /\ In(<< "g","l","m" >>, last.ret[k].full_name)
          /\ last.ret[k].manufacturer = ZhipuAI

\* the characters the prefix step removes in front of the model name
SeparatorChars == {"_", "-"}

\* the folder name starts with the known manufacturer number m and with
\* none of those before it in the list
FirstKnown(name, m) ==
    /\ StartsWith(name, known_manufacturers[m])
    /\ \A j \in 1..(m - 1) : ~StartsWith(name, known_manufacturers[j])

StartsWithKnown(name) ==
    \E m \in 1..Len(known_manufacturers) : StartsWith(name, known_manufacturers[m])

\* the last position of the run of underscores and hyphens that follows
\* the first n characters of name (n itself when there is no such run)
EndOfSeparators(name, n) ==
    CHOOSE j \in n..Len(name) :
        /\ \A i \in (n + 1)..j : name[i] \in SeparatorChars
        /\ j = Len(name) \/ name[j + 1] \notin SeparatorChars

\* the rest of name after its first n characters and the separators that
\* follow them, and name itself when nothing is left
RestOrName(name, n) ==
    IF EndOfSeparators(name, n) = Len(name) THEN name
    ELSE SubSeq(name, EndOfSeparators(name, n) + 1, Len(name))

\* C11: a folder name without GLM that starts with a known manufacturer is
\* entered with the first such manufacturer of the list; its model name is
\* what remains after that prefix and all underscores and hyphens that
\* follow it, and the whole folder name when nothing remains.
C11_FirstKnownPrefix ==
    RanScan =>
        \A k \in 1..Len(last.ret) :
            \A m \in 1..Len(known_manufacturers) :
                (~ContainsGLM(last.ret[k].full_name) /\ FirstKnown(last.ret[k].full_name, m))
                    => /\ last.ret[k].manufacturer = known_manufacturers[m]
                       /\ last.ret[k].model_name =
                              RestOrName(last.ret[k].full_name, Len(known_manufacturers[m]))

\* C11 witness: a scanned folder starts with Qwen followed by a separator
\* and more, and its model name is what follows the separator.
C11_Witness ==
    /\ RanScan
    /\ \E k \in 1..Len(last.ret) :
          /\ last.ret[k].full_name = Qwen \o << "_", "x" >>
          /\ last.ret[k].manufacturer = Qwen
          /\ last.ret[k].model_name = << "x" >>

\* position of the first occurrence of the character c in name
FirstPos(name, c) ==
    CHOOSE i \in 1..Len(name) : name[i] = c /\ \A j \in 1..(i - 1) : name[j] # c

\* the separator of the fallback step: the underscore if the name has one,
\* else the hyphen
SplitChar(name) == IF \E i \in 1..Len(name) : name[i] = "_" THEN "_" ELSE "-"

HasSeparator(name) == \E i \in 1..Len(name) : name[i] \in SeparatorChars

\* C12: a folder name without GLM and without known prefix is split once,
\* at its first underscore if it has one, else at its first hyphen; what
\* precedes the separator is the manufacturer, what follows it the model
\* name.
C12_SplitAtFirstSeparator ==
    RanScan =>
        \A k \in 1..Len(last.ret) :
            LET name == last.ret[k].full_name
            IN  (~ContainsGLM(name) /\ ~StartsWithKnown(name) /\ HasSeparator(name))
                    => /\ last.ret[k].manufacturer =
                              SubSeq(name, 1, FirstPos(name, SplitChar(name)) - 1)
                       /\ last.ret[k].model_name =
                              SubSeq(name, FirstPos(name, SplitChar(name)) + 1, Len(name))

\* C12 witness: a scanned folder has a hyphen before its underscore and
\* was split at the underscore.
C12_Witness ==
    /\ RanScan
    /\ \E k \in 1..Len(last.ret) :
          /\ last.ret[k].full_name = << "x", "-", "_" >>
          /\ last.ret[k].manufacturer = << "x", "-" >>
          /\ last.ret[k].model_name = Empty

\* C13: a folder name without GLM, without known prefix and without
\* underscore or hyphen is entered as Others with the whole folder name as
\* model name.
C13_DefaultOthers ==
    RanScan =>
        \A k \in 1..Len(last.ret) :
            LET name == last.ret[k].full_name
            IN  (~ContainsGLM(name) /\ ~StartsWithKnown(name) /\ ~HasSeparator(name))
                    => /\ last.ret[k].manufacturer = Others
                       /\ last.ret[k].model_name = name

\* C13 witness: a scanned folder contains the name of a known manufacturer
\* but does not start with it, has no separator, and is entered as Others.
C13_Witness ==
    /\ RanScan
    /\ \E k \in 1..Len(last.ret) :
          /\ last.ret[k].full_name = << "x" >> \o Qwen
          /\ last.ret[k].manufacturer = Others
          /\ last.ret[k].model_name = last.ret[k].full_name

\* the fixed manufacturer names of the program: the list of scan_models
\* and the menu of the tool
FixedManufacturers ==
    { known_manufacturers[m] : m \in 1..Len(known_manufacturers) }
        \cup { ZhipuAI, Others }

\* C14 as claimed: the manufacturer of every entry is one of the fixed
\* manufacturer names or Others.
C14_ManufacturerIsFixedName ==
    RanScan =>
        \A k \in 1..Len(last.ret) : last.ret[k].manufacturer \in FixedManufacturers

\* C14 amended: the manufacturer of every entry is one of the fixed
\* manufacturer names, Others, or, for a folder name without GLM and
\* without known prefix that has an underscore or hyphen, the part of the
\* folder name before its first underscore (else before its first hyphen).
C14_ManufacturerIsFixedNameOrPrefix ==
    RanScan =>
        \A k \in 1..Len(last.ret) :
            LET name == last.ret[k].full_name
            IN  \/ last.ret[k].manufacturer \in FixedManufacturers
                \/ /\ ~ContainsGLM(name)
                   /\ ~StartsWithKnown(name)
                   /\ HasSeparator(name)
                   /\ last.ret[k].manufacturer =
                          SubSeq(name, 1, FirstPos(name, SplitChar(name)) - 1)

\* C14 witness: a scanned folder was entered with a manufacturer that is
\* no fixed name: the part before its separator.
C14_Witness ==
    /\ RanScan
    /\ \E k \in 1..Len(last.ret) :
          /\ last.ret[k].full_name = << "x", "_" >> \o Qwen
          /\ last.ret[k].manufacturer = << "x" >>
          /\ last.ret[k].manufacturer \notin FixedManufacturers

(***************************************************************************)
(* Properties of the settings flow (checked under SpecFlow).               *)
(***************************************************************************)
\* the classifier and resolver operations
ClassifierOps ==
    { "find_rminte_models_disk", "find_target_cfeb_card",
      "scan_models", "auto_detect_backend" }

\* C18: a step of find_rminte_models_disk, find_target_cfeb_card,
\* scan_models or auto_detect_backend leaves the persisted configuration
\* as it was; only confirm_model_disk and confirm_cfeb_card write it.
C18_ClassifiersLeaveConfig ==
    [][last'.op \in ClassifierOps => config' = config]_vars

\* C18 witness: both confirmations have saved their result, and a resolver
\* has run on the saved configuration afterwards.
C18_Witness ==
    /\ last.op = "auto_detect_backend"
    /\ config.disk_path = MediaMaster
    /\ config.models # << >>
    /\ config.cfeb_card = DiskPath("b")
    /\ config.target_partitions # None

\* two entries for the same folder name agree
SameClassification(a, b) ==
    a.full_name = b.full_name
        => /\ a.manufacturer = b.manufacturer
           /\ a.model_name = b.model_name

C19_WitnessScan ==
    /\ RanScan
    /\ seen.call.op = "scan_models"
    /\ seen.call.ret # last.ret
    /\ \E a \in 1..Len(seen.call.ret), b \in 1..Len(last.ret) :
          /\ seen.call.ret[a].full_name = last.ret[b].full_name
          /\ seen.call.ret[a].manufacturer = last.ret[b].manufacturer

(***************************************************************************)
(* Properties of the copy operations (checked under SpecCopy).             *)
(***************************************************************************)
RanCopy == last.op \in {"copy_dev_config_files", "copy_auto_and_dev_folders"}

\* the items of the operation that ran, and what happens to item k
CopyItems ==
    IF last.op = "copy_dev_config_files" THEN config_files ELSE folders_to_copy

ItemOutcome(k) ==
    IF last.op = "copy_dev_config_files" THEN fs.dev_yaml.files[k]
    ELSE FolderOutcome(fs.tree, folders_to_copy[k])

Reached(k) == \E a \in 1..Len(last.attempted) : last.attempted[a] = CopyItems[k]

\* C20: a copy operation reports success exactly when at least one item
\* was copied, and an item that is missing or fails does not keep the
\* items after it from being attempted.
C20_PartialSuccess ==
    RanCopy =>
        /\ (last.ret = "True") <=> (Len(last.copied) > 0)
        /\ \A k \in 1..(Len(CopyItems) - 1) :
              (Reached(k) /\ ItemOutcome(k) # "copied") => Reached(k + 1)

(***************************************************************************)
(* Properties of the make-card flow (checked under SpecRun).               *)
(***************************************************************************)
\* the steps of run that copy files to the target card
CopySteps == {"folders", "backend", "model", "dev_config"}

\* the positions of the steps named name in the trace of run
StepsNamed(name) == { k \in 1..Len(job.trace) : job.trace[k].step = name }

\* some step named name was executed before position k
Before(name, k) == \E j \in StepsNamed(name) : j < k

\* C21: in run, the target card is discovered (and found) before any file
\* is copied to the target, and in automatic mode the backend is resolved
\* for the selected model before the backend files and the model are copied.
C21_ClassifiersBeforeCopies ==
    \A k \in 1..Len(job.trace) :
        /\ job.trace[k].step \in CopySteps
              => \E j \in StepsNamed("verify") : j < k /\ job.trace[j].ok
        /\ (job.backend_choice = "3" /\ job.trace[k].step \in {"backend", "model"})
              => /\ Before("resolve", k)
                 /\ job.backend_type =
                       auto_detect_backend(job.selected_model.model_name, job.config, fs)

C21_Witness ==
    /\ job.backend_choice = "3"
    /\ job.backend_type = FlashInfer
    /\ [k \in 1..Len(job.trace) |-> job.trace[k].step]
          = << "verify", "folders", "resolve", "backend", "model" >>
    /\ \A k \in 1..Len(job.trace) : job.trace[k].ok

\* the place of a step in the order of run
Rank(name) ==
    CASE name = "verify" -> 1
      [] name = "folders" -> 2
      [] name = "resolve" -> 3
      [] name = "backend" -> 4
      [] name = "model" -> 5
      [] name = "dev_config" -> 6

\* C22: run executes its steps in the order verify target card, copy
\* auto/dev folders, copy backend, copy model, copy dev config; no step runs
\* after a step that reported failure, run has left once a step failed, and
\* the completion message is reached only when every executed step
\* reported success.
C22_FixedOrderStopAtFailure ==
    /\ \A a, b \in 1..Len(job.trace) :
          a < b => Rank(job.trace[a].step) < Rank(job.trace[b].step)
    /\ \A k \in 1..(Len(job.trace) - 1) : job.trace[k].ok
    /\ (job.trace # << >> /\ ~job.trace[Len(job.trace)].ok)
          => job.pc \in {"returned", "raised"}
    /\ job.pc = "complete"
          => /\ \A k \in 1..Len(job.trace) : job.trace[k].ok
             /\ \A name \in {"verify", "folders", "model"} : StepsNamed(name) # {}

C22_Witness ==
    /\ job.pc = "returned"
    /\ [k \in 1..Len(job.trace) |-> job.trace[k]]
          = << Step("verify", TRUE), Step("folders", TRUE), Step("backend", FALSE) >>

\* C23: whenever run reaches the model copy step, the backend files of the
\* chosen or detected backend have been copied successfully before, for
\* every backend name auto_detect_backend can return.
C23_BackendCopiedBeforeModel ==
    \A k \in StepsNamed("model") :
        \E j \in StepsNamed("backend") : j < k /\ job.trace[j].ok

\* the configuration run loaded lacks a master disk path or has no models
Unconfigured(cfg) == ~Truthy(cfg.disk_path) \/ cfg.models = << >>

\* C26: when the loaded configuration lacks a master disk path or has an
\* empty model list, run returns before the target verification, copies
\* nothing and writes no configuration.
C26_UnconfiguredRunReturns ==
    (job.pc # "menu" /\ Unconfigured(job.config))
        => /\ job.pc = "returned"
           /\ job.trace = << >>
           /\ config = job.config

C26_Witness ==
    /\ job.pc = "returned"
    /\ Truthy(job.config.disk_path)
    /\ job.config.models = << >>
    /\ inv.disks["b"] = ReadyCard

(***************************************************************************)
(* Properties of the saved target card (checked under SpecCard).           *)
(***************************************************************************)
\* C24: once confirm_cfeb_card has succeeded and saved the device it found,
\* get_target_cfeb_device returns that device; what an earlier
\* verify_target_cfeb_card saved does not override it.
C24_ConfirmedCardIsTarget ==
    (last.op = "confirm_cfeb_card" /\ last.ret)
        => get_target_cfeb_device(config) = config.cfeb_card

(***************************************************************************)
(* Properties of the dev folder of the target (checked under SpecCopy).    *)
(***************************************************************************)
\* C25: copy_auto_and_dev_folders leaves an already existing dev/llm folder
\* of the target as it is: the llm item of the source is skipped and only
\* the other items of dev are replaced.
C25_ExistingLlmKept ==
    (last.op = "copy_auto_and_dev_folders" /\ fs.tree.dev.llm = "kept")
        => last.llm = "kept"

C25_Witness ==
    /\ last.op = "copy_auto_and_dev_folders"
    /\ last.ret = "True"
    /\ fs.tree.dev.llm = "kept"
    /\ fs.tree.dev.kind = "merge"
    /\ fs.tree.dev.items = << "llm", "copied" >>
    /\ last.llm = "kept"

(***************************************************************************)
(* Properties of confirm_model_disk (checked under SpecSettings).          *)
(***************************************************************************)
\* the master disk resolves to the mount point the models folder is under,
\* and the folder holds at least one directory
MasterHasModels ==
    /\ find_rminte_models_disk(inv) = MediaMaster
    /\ ResultExists(inv, MediaMaster)
    /\ fs.download_dirs # {}
    /\ \E k \in 1..Len(fs.listing) : fs.listing[k].isdir

\* C27: confirm_model_disk writes the configuration only when a master disk
\* was found, its path exists and the scan produced at least one model; when
\* it writes, it changes only disk_path and models and keeps every other
\* key.
C27_ConfirmModelDiskWrites ==
    [][last'.op = "confirm_model_disk"
         => /\ config' # config => MasterHasModels
            /\ MasterHasModels
                 => /\ config'.disk_path = MediaMaster
                    /\ Len(config'.models) > 0
            /\ config'.cfeb_card = config.cfeb_card
            /\ config'.target_partitions = config.target_partitions
            /\ config'.target_cfeb_card = config.target_cfeb_card]_vars

C27_Witness ==
    /\ last.op = "confirm_model_disk"
    /\ config.cfeb_card = DiskPath("b")
    /\ config.target_partitions # None
    /\ config.disk_path = MediaMaster
    /\ config.models = scan_models(fs, MediaMaster)
    /\ Len(config.models) = 2
    /\ config.models[1].manufacturer = << "x" >>

(***************************************************************************)
(* Properties of the manufacturer menu (checked under SpecMenu).           *)
(***************************************************************************)
RanFilter == last.op = "filter_models_by_manufacturer"

\* the menu choices for which the filter returns the entry
ChoicesReturning(model, models) ==
    { m \in 1..Len(MANUFACTURERS) :
        \E k \in 1..Len(filter_models_by_manufacturer(MANUFACTURERS[m], models)) :
            filter_models_by_manufacturer(MANUFACTURERS[m], models)[k] = model }

\* C28: every entry scan_models produces is returned by
\* filter_models_by_manufacturer for exactly one of the seven menu
\* manufacturers: the seven filtered groups are disjoint and cover the list.
C28_ExactlyOneMenuChoice ==
    RanFilter =>
        /\ Len(MANUFACTURERS) = 7
        /\ \A k \in 1..Len(last.models) :
              Cardinality(ChoicesReturning(last.models[k], last.models)) = 1
        /\ \A k \in 1..Len(last.ret) :
              ChoicesReturning(last.ret[k], last.models)
                  = { m \in 1..7 : MANUFACTURERS[m] = last.manufacturer }

\* C28 witness: two scanned folders, one of a menu manufacturer and one whose
\* manufacturer is free text; the choice Others returns the second only.
C28_Witness ==
    /\ RanFilter
    /\ last.manufacturer = Others
    /\ Len(last.models) = 2
    /\ last.models[1].manufacturer = Qwen
    /\ last.models[2].manufacturer \notin { MANUFACTURERS[m] : m \in 1..7 }
    /\ last.ret = << last.models[2] >>

\* C29: for every non-empty folder name the entry has a non-empty
\* manufacturer and a non-empty model name, also when the name begins or
\* ends with _ or -.
C29_NonEmptyFields ==
    RanScan =>
        \A k \in 1..Len(last.ret) :
            Len(last.ret[k].full_name) > 0
                => /\ Len(last.ret[k].manufacturer) > 0
                   /\ Len(last.ret[k].model_name) > 0

(***************************************************************************)
(* The labels find_target_cfeb_card reads (checked under SpecDisk).        *)
(***************************************************************************)
\* C30: in find_target_cfeb_card the label recorded for a role of device D
\* is the label of the exact partition D1, D2 or D3 (nothing when that
\* partition has no label), never that of a partition whose path extends it,
\* such as D10 or D21.
C30_LabelFromExactPartition ==
    RanTarget =>
        \A letter \in DiskSet :
            inv.disks[letter].present =>
                \A n \in 1..3 :
                    partition_labels(BlkidLines(inv), DiskPath(letter))[Roles[n]]
                        = IF HasPart(inv, letter, n)
                          THEN PartOf(letter, n).label
                          ELSE Empty

====
